---- MODULE Spec2Model ----
(***************************************************************************)
(* A model of add_headings.py: the heading rule engine, the title-case     *)
(* transformer, the frontmatter codec and the per-file processing loop of  *)
(* HeadingProcessor.                                                       *)
(*                                                                         *)
(* Python strings are sequences of one-character strings, so that          *)
(* endswith, slicing, replace, split, lower/upper and pattern search are   *)
(* computed character by character as the code computes them.              *)
(***************************************************************************)
EXTENDS Integers, Sequences, FiniteSets, TLC

VARIABLES
    config,               \* the Config dataclass of the run
    DAILY_NOTE_PATTERNS,  \* HeadingProcessor class attribute (mutable list)
    TEMPLATE_PATTERNS,    \* HeadingProcessor class attribute (mutable list)
    PRESERVE_TERMS,       \* HeadingProcessor class attribute (mutable set)
    vault_name,           \* config.vault_path.name
    pc,                   \* position of the program
    file_path,            \* rule engine: the path handed to _generate_heading_value
    heading_value,        \* rule engine: the value it returned
    tc,                   \* title case: [text, result] of the last _to_title_case call
    content,              \* codec: the text handed to _parse_frontmatter
    parsed,               \* codec: [fm, body] as _parse_frontmatter returned them
    new_content,          \* codec: the text _reconstruct_content returned
    reparsed,             \* codec: _parse_frontmatter of new_content
    fs,                   \* the files below the vault root: path -> [content, readable]
    md_files,             \* process_vault: the list _find_markdown_files returned
    outcome,              \* process_vault: the outcome of each file visited so far
    stats,                \* HeadingProcessor.stats
    summary,              \* what _print_summary logged, or NoSummary
    run,                  \* the number of the process_vault run (1 or 2)
    fs_before,            \* the files as they were when the current run started
    faults,               \* the input/output failures the environment has produced
    vault_kind,           \* main: what the vault path names (missing, file or dir)
    args,                 \* main: the argparse.Namespace of the command line
    sidecar,              \* the file .heading-config.yaml at the vault root
    file_config,          \* what load_config_file returned
    exit_code,            \* what main returned, NotReturned before it returns
    warnings,             \* the calls of logging.warning made by load_config_file
    merges                \* the calls of merge_config made so far

tables == <<DAILY_NOTE_PATTERNS, TEMPLATE_PATTERNS, PRESERVE_TERMS>>
codecVars == <<content, parsed, new_content, reparsed>>
vaultVars == <<fs, md_files, outcome, stats, summary, run, fs_before, faults>>
mainVars == <<vault_kind, args, sidecar, file_config, exit_code, warnings, merges>>
vars == <<config, DAILY_NOTE_PATTERNS, TEMPLATE_PATTERNS, PRESERVE_TERMS,
          vault_name, pc, file_path, heading_value, tc,
          content, parsed, new_content, reparsed,
          fs, md_files, outcome, stats, summary, run, fs_before, faults,
          vault_kind, args, sidecar, file_config, exit_code, warnings, merges>>

\* HeadingProcessor.__init__, lines 74 to 79, and the summary before _print_summary
ZeroStats == [processed |-> 0, skipped_existing |-> 0, skipped_special |-> 0, errors |-> 0]
NoSummary == [printed |-> FALSE, processed |-> 0, skipped_existing |-> 0,
              skipped_special |-> 0, errors |-> 0, total |-> 0]

\* What yaml.safe_load returns for .heading-config.yaml: a value of a key is
\* absent, a list of strings or a scalar that is not a string (true, 5, null);
\* the value of title_case is absent, a mapping or such a scalar; a document is
\* None, a mapping or a list.
AbsentV == [t |-> "absent", items |-> <<>>]
ListV(items) == [t |-> "list", items |-> items]
ScalarV == [t |-> "scalar", items |-> <<>>]
TitleCaseV(t, preserve_terms) == [t |-> t, preserve_terms |-> preserve_terms]
CfgDoc(t, daily, templ, tcase, excl) ==
    [t |-> t, daily_note_patterns |-> daily, template_directories |-> templ,
     title_case |-> tcase, exclude_patterns |-> excl]
NoneCfg == CfgDoc("none", AbsentV, AbsentV, TitleCaseV("absent", AbsentV), AbsentV)

\* main has not returned
NotReturned == 0 - 1

\* parse_args with the vault path alone
DefaultArgs == [dry_run |-> FALSE, backup |-> FALSE, skip_existing |-> TRUE,
                title_case |-> FALSE, preserve_case |-> FALSE,
                exclude_dirs |-> <<>>, include_patterns |-> <<>>]

MissingSidecar == [k |-> "missing", doc |-> NoneCfg]

----------------------------------------------------------------------------
(* Characters and the str methods the code uses.                           *)

LowerChars == <<"a","b","c","d","e","f","g","h","i","j","k","l","m",
                "n","o","p","q","r","s","t","u","v","w","x","y","z">>
UpperChars == <<"A","B","C","D","E","F","G","H","I","J","K","L","M",
                "N","O","P","Q","R","S","T","U","V","W","X","Y","Z">>
Digits == {"0","1","2","3","4","5","6","7","8","9"}
Whitespace == {" ", "\t", "\n", "\r"}

LowerSet == {LowerChars[i] : i \in DOMAIN LowerChars}
UpperSet == {UpperChars[i] : i \in DOMAIN UpperChars}
ToLower == [c \in UpperSet |-> LowerChars[CHOOSE i \in DOMAIN UpperChars : UpperChars[i] = c]]
ToUpper == [c \in LowerSet |-> UpperChars[CHOOSE i \in DOMAIN LowerChars : LowerChars[i] = c]]

IsLower(c) == c \in LowerSet
IsUpper(c) == c \in UpperSet
IsWordChar(c) == IsLower(c) \/ IsUpper(c) \/ c \in Digits \/ c = "_"

LowerCh(c) == IF IsUpper(c) THEN ToLower[c] ELSE c
UpperCh(c) == IF IsLower(c) THEN ToUpper[c] ELSE c

\* str.lower(), str.upper()
lower(s) == [i \in DOMAIN s |-> LowerCh(s[i])]
upper(s) == [i \in DOMAIN s |-> UpperCh(s[i])]

\* str.capitalize(): first character upper-cased, the rest lower-cased
capitalize(s) == [i \in DOMAIN s |-> IF i = 1 THEN UpperCh(s[i]) ELSE LowerCh(s[i])]

\* str.replace(a, b) for single characters a, b
replace(s, a, b) == [i \in DOMAIN s |-> IF s[i] = a THEN b ELSE s[i]]

\* s[i:] (1-based i) and s[:-n]
DropFirst(s, n) == IF n >= Len(s) THEN <<>> ELSE SubSeq(s, n + 1, Len(s))
DropLast(s, n) == IF n >= Len(s) THEN <<>> ELSE SubSeq(s, 1, Len(s) - n)

\* str.startswith, str.endswith
startswith(s, p) == Len(p) <= Len(s) /\ SubSeq(s, 1, Len(p)) = p
endswith(s, p) == Len(p) <= Len(s) /\ SubSeq(s, Len(s) - Len(p) + 1, Len(s)) = p

\* p in s (substring test)
contains(s, p) ==
    \E i \in 1..(Len(s) - Len(p) + 1) : SubSeq(s, i, i + Len(p) - 1) = p

\* str.lstrip() of whitespace
RECURSIVE lstrip(_)
lstrip(s) == IF s # <<>> /\ Head(s) \in Whitespace THEN lstrip(Tail(s)) ELSE s

\* str.split(): the maximal runs of non-whitespace characters, in order
RECURSIVE split(_)
split(s) ==
    LET t == lstrip(s) IN
    IF t = <<>> THEN <<>>
    ELSE LET stops == {i \in 1..Len(t) : t[i] \in Whitespace}
             n == IF stops = {} THEN Len(t)
                  ELSE (CHOOSE i \in stops : \A j \in stops : i <= j) - 1
         IN <<SubSeq(t, 1, n)>> \o split(DropFirst(t, n))

\* sep.join(words)
RECURSIVE join(_, _)
join(sep, words) ==
    IF words = <<>> THEN <<>>
    ELSE IF Len(words) = 1 THEN words[1]
    ELSE words[1] \o sep \o join(sep, Tail(words))

----------------------------------------------------------------------------
(* String literals of the source and of the modelled vaults.               *)

s_index == <<"i","n","d","e","x">>
s_Index == <<"I","n","d","e","x">>
s_README == <<"R","E","A","D","M","E">>
s_readme == <<"r","e","a","d","m","e">>
s_template == <<"t","e","m","p","l","a","t","e">>
s_summary_suffix == <<"-","s","u","m","m","a","r","y">>
s_index_summary == <<"i","n","d","e","x","-","s","u","m","m","a","r","y">>
s_my_note == <<"m","y","-","n","o","t","e">>
s_my_project_summary == <<"m","y","-","p","r","o","j","e","c","t","-","s","u","m","m","a","r","y">>
s_meeting_template == <<"m","e","e","t","i","n","g","-","t","e","m","p","l","a","t","e">>
s_date == <<"2","0","2","4","-","0","1","-","1","5">>
s_01_projects == <<"0","1","-","p","r","o","j","e","c","t","s">>
s_api_documentation == <<"a","p","i","-","d","o","c","u","m","e","n","t","a","t","i","o","n">>
s_ios_development == <<"i","o","s","-","d","e","v","e","l","o","p","m","e","n","t">>
s_my_under_note == <<"m","y","_","n","o","t","e">>
s_test_API_guide == <<"t","e","s","t","-","A","P","I","-","g","u","i","d","e">>
s_notes == <<"n","o","t","e","s">>
s_projects == <<"p","r","o","j","e","c","t","s">>
s_daily_notes == <<"d","a","i","l","y","-","n","o","t","e","s">>
s_00_INBOX == <<"0","0","-","I","N","B","O","X">>
s_99_ARCHIVE == <<"9","9","-","A","R","C","H","I","V","E">>
s_2024 == <<"2","0","2","4">>
s_01_January == <<"0","1","-","J","a","n","u","a","r","y">>
s_journal == <<"j","o","u","r","n","a","l">>
s_Journal == <<"J","o","u","r","n","a","l">>
s_my_journal == <<"m","y","-","j","o","u","r","n","a","l">>
s_04_TEMPLATES == <<"0","4","-","T","E","M","P","L","A","T","E","S">>
s_templates == <<"t","e","m","p","l","a","t","e","s">>
s_vault == <<"v","a","u","l","t">>
s_md == <<".","m","d">>
s_Daily_Note_ == <<"D","a","i","l","y"," ","N","o","t","e"," ">>
s_Template_ == <<"T","e","m","p","l","a","t","e",":"," ">>
s_dash_Summary == <<" ","-"," ","S","u","m","m","a","r","y">>
s_dash_Index == <<" ","-"," ","I","n","d","e","x">>
s_dash_README == <<" ","-"," ","R","E","A","D","M","E">>
g_dd_daily == <<"*","*","/","d","a","i","l","y","-","n","o","t","e","s","/","*",".","m","d">>
g_notes_star == <<"n","o","t","e","s","/","*">>
g_dd_notes == <<"*","*","/","n","o","t","e","s","/","*",".","m","d">>
g_star_summary == <<"*","s","u","m","m","a","r","y","*">>

----------------------------------------------------------------------------
(* Regular expressions of the rule tables: a pattern is a sequence of      *)
(* atoms, a literal character, the class [/\\], \d, or \w+ .               *)

Lit(c) == [t |-> "lit", c |-> c]
SepAtom == [t |-> "sep", c |-> "/"]
DigitAtom == [t |-> "digit", c |-> "0"]
WordPlus == [t |-> "word+", c |-> "a"]
Lits(s) == [i \in DOMAIN s |-> Lit(s[i])]

\* the pattern from index pi on matches a prefix of s starting at si (re.IGNORECASE)
RECURSIVE MatchHere(_, _, _, _)
MatchHere(pat, pi, s, si) ==
    IF pi > Len(pat) THEN TRUE
    ELSE LET a == pat[pi] IN
         CASE a.t = "lit" ->
                si <= Len(s) /\ LowerCh(s[si]) = LowerCh(a.c)
                /\ MatchHere(pat, pi + 1, s, si + 1)
           [] a.t = "sep" ->
                si <= Len(s) /\ s[si] \in {"/", "\\"}
                /\ MatchHere(pat, pi + 1, s, si + 1)
           [] a.t = "digit" ->
                si <= Len(s) /\ s[si] \in Digits
                /\ MatchHere(pat, pi + 1, s, si + 1)
           [] a.t = "word+" ->
                \E n \in 1..(Len(s) - si + 1) :
                    /\ \A k \in si..(si + n - 1) : IsWordChar(s[k])
                    /\ MatchHere(pat, pi + 1, s, si + n)

\* re.search(pattern, s, re.IGNORECASE) is not None
re_search(pat, s) == \E si \in 1..(Len(s) + 1) : MatchHere(pat, 1, s, si)

\* fnmatch(path, pattern) on a POSIX host: * matches any run of characters
\* (the separator included), ? one character, anything else itself
RECURSIVE fnmatch(_, _)
fnmatch(path, pattern) ==
    IF pattern = <<>> THEN path = <<>>
    ELSE IF Head(pattern) = "*"
         THEN \E n \in 0..Len(path) : fnmatch(DropFirst(path, n), Tail(pattern))
    ELSE IF Head(pattern) = "?"
         THEN path # <<>> /\ fnmatch(Tail(path), Tail(pattern))
    ELSE path # <<>> /\ Head(path) = Head(pattern)
         /\ fnmatch(Tail(path), Tail(pattern))

\* HeadingProcessor._match_glob_pattern
_match_glob_pattern(path, pattern) == fnmatch(path, pattern)

\* the class attributes as the class body sets them
DefaultDailyNotePatterns == <<
    Lits(s_00_INBOX) \o <<SepAtom>> \o Lits(s_daily_notes) \o <<SepAtom>>,
    Lits(s_99_ARCHIVE) \o <<SepAtom, DigitAtom, DigitAtom, DigitAtom, DigitAtom,
        SepAtom, DigitAtom, DigitAtom, Lit("-"), WordPlus, SepAtom>>,
    Lits(s_daily_notes) \o <<SepAtom>>,
    Lits(s_journal) \o <<SepAtom>> >>

DefaultTemplatePatterns == <<
    Lits(s_04_TEMPLATES) \o <<SepAtom>>,
    Lits(s_templates) \o <<SepAtom>>,
    Lits(s_template) \o <<SepAtom>> >>

DefaultPreserveTerms == {
    <<"A","P","I">>, <<"A","P","I","s">>, <<"U","I">>, <<"U","X">>,
    <<"C","S","S">>, <<"H","T","M","L">>, <<"J","S">>, <<"J","S","O","N">>,
    <<"Y","A","M","L">>, <<"X","M","L">>, <<"S","Q","L">>, <<"H","T","T","P">>,
    <<"H","T","T","P","S">>, <<"U","R","L">>, <<"U","R","I">>, <<"I","D">>,
    <<"i","O","S">>, <<"m","a","c","O","S">>, <<"I","D","E">>, <<"C","L","I">>,
    <<"G","U","I">>, <<"R","E","S","T">>, <<"G","r","a","p","h","Q","L">>,
    <<"O","A","u","t","h">>, <<"J","W","T">>, <<"P","D","F">>, <<"P","N","G">>,
    <<"J","P","G">>, <<"G","I","F">>, <<"S","V","G">>, <<"M","P","3">>,
    <<"M","P","4">>, <<"Z","I","P">>, <<"R","E","A","D","M","E">> }

----------------------------------------------------------------------------
(* Paths: a file path is the directories below the vault root and the      *)
(* file's name.                                                            *)

\* PurePath.suffix / PurePath.stem: the name up to its last dot, unless that
\* dot is the first or the last character of the name
PathStem(name) ==
    LET dots == {i \in 1..Len(name) : name[i] = "."}
        i == IF dots = {} THEN 0 ELSE CHOOSE d \in dots : \A e \in dots : e <= d
    IN IF 1 < i /\ i < Len(name) THEN SubSeq(name, 1, i - 1) ELSE name

\* str(file_path.relative_to(vault_path)).replace('\\', '/')
RelStr(fp) == replace(join(<<"/">>, fp.dirs \o <<fp.name>>), "\\", "/")

\* file_path.parent.name: the vault directory itself for a file in the root
ParentName(fp, vname) ==
    IF fp.dirs = <<>> THEN vname ELSE fp.dirs[Len(fp.dirs)]

----------------------------------------------------------------------------
(* Title Case Transformer                                                  *)

\* re.sub(r'^\d{2}-\s*', '', text)
StripOrgPrefix(text) ==
    IF Len(text) >= 3 /\ text[1] \in Digits /\ text[2] \in Digits /\ text[3] = "-"
    THEN lstrip(DropFirst(text, 3))
    ELSE text

\* the loop body of _to_title_case for one word
TitleWord(word, terms) ==
    IF upper(word) \in terms THEN upper(word)
    ELSE IF word \in terms THEN word
    ELSE capitalize(word)

\* HeadingProcessor._to_title_case
_to_title_case(text, terms) ==
    LET t1 == replace(replace(text, "-", " "), "_", " ")
        t2 == StripOrgPrefix(t1)
        words == split(t2)
    IN join(<<" ">>, [i \in DOMAIN words |-> TitleWord(words[i], terms)])

----------------------------------------------------------------------------
(* Heading Rule Engine                                                     *)

\* a daily-note test for which a configured include pattern is enough, matched
\* or not
IsDailyNoteAnyInclude(rel_path, cfg, daily) ==
    \/ \E i \in DOMAIN daily : re_search(daily[i], rel_path)
    \/ cfg.include_patterns # <<>>

\* HeadingProcessor._is_daily_note
_is_daily_note(rel_path, cfg, daily) ==
    \/ \E i \in DOMAIN daily : re_search(daily[i], rel_path)
    \/ \E i \in DOMAIN cfg.include_patterns :
           _match_glob_pattern(rel_path, cfg.include_patterns[i])

\* HeadingProcessor._is_template_file
_is_template_file(rel_path, filename, templ) ==
    \/ \E i \in DOMAIN templ : re_search(templ[i], rel_path)
    \/ contains(lower(filename), s_template)

\* a slip in the slice that removes '-summary': one character too few
SummaryHeadingShortSlice(filename, cfg, terms) ==
    LET project_name == DropLast(filename, 7)
    IN (IF cfg.title_case THEN _to_title_case(project_name, terms) ELSE project_name)
       \o s_dash_Summary

\* the branches of _generate_heading_value, one per rule
SummaryHeading(filename, cfg, terms) ==
    LET project_name == DropLast(filename, 8)
    IN (IF cfg.title_case THEN _to_title_case(project_name, terms) ELSE project_name)
       \o s_dash_Summary

\* an index or readme heading that names the top-level directory of the file
ParentHeadingTopLevel(fp, vname, cfg, terms, suffix) ==
    LET parent_name == IF fp.dirs = <<>> THEN vname ELSE fp.dirs[1]
    IN (IF cfg.title_case THEN _to_title_case(parent_name, terms) ELSE parent_name)
       \o suffix

ParentHeading(fp, vname, cfg, terms, suffix) ==
    LET parent_name == ParentName(fp, vname)
    IN (IF cfg.title_case THEN _to_title_case(parent_name, terms) ELSE parent_name)
       \o suffix

DefaultHeading(filename, cfg, terms) ==
    IF cfg.title_case /\ ~cfg.preserve_case
    THEN _to_title_case(filename, terms)
    ELSE filename

\* the rules with the template test moved in front of the summary test
GenerateTemplateBeforeSummary(fp, vname, cfg, daily, templ, terms) ==
    LET filename == PathStem(fp.name)
        rel_str == RelStr(fp)
    IN IF _is_daily_note(rel_str, cfg, daily) THEN s_Daily_Note_ \o filename
       ELSE IF _is_template_file(rel_str, filename, templ) THEN s_Template_ \o filename
       ELSE IF endswith(filename, s_summary_suffix)
            THEN DropLast(filename, 8) \o s_dash_Summary
       ELSE IF lower(filename) = s_index
            THEN ParentName(fp, vname) \o s_dash_Index
       ELSE IF upper(filename) = s_README
            THEN ParentName(fp, vname) \o s_dash_README
       ELSE filename

\* the rules with a daily-note branch that title-cases the stem
GenerateDailyTitleCased(fp, vname, cfg, daily, templ, terms) ==
    LET filename == PathStem(fp.name)
        rel_str == RelStr(fp)
    IN IF _is_daily_note(rel_str, cfg, daily)
            THEN s_Daily_Note_ \o DefaultHeading(filename, cfg, terms)
       ELSE IF endswith(filename, s_summary_suffix)
            THEN SummaryHeading(filename, cfg, terms)
       ELSE IF _is_template_file(rel_str, filename, templ) THEN s_Template_ \o filename
       ELSE IF lower(filename) = s_index
            THEN ParentHeading(fp, vname, cfg, terms, s_dash_Index)
       ELSE IF upper(filename) = s_README
            THEN ParentHeading(fp, vname, cfg, terms, s_dash_README)
       ELSE DefaultHeading(filename, cfg, terms)

\* HeadingProcessor._generate_heading_value
_generate_heading_value(fp, vname, cfg, daily, templ, terms) ==
    LET filename == PathStem(fp.name)
        rel_str == RelStr(fp)
    IN IF _is_daily_note(rel_str, cfg, daily) THEN s_Daily_Note_ \o filename
       ELSE IF endswith(filename, s_summary_suffix)
            THEN SummaryHeading(filename, cfg, terms)
       ELSE IF _is_template_file(rel_str, filename, templ) THEN s_Template_ \o filename
       ELSE IF lower(filename) = s_index
            THEN ParentHeading(fp, vname, cfg, terms, s_dash_Index)
       ELSE IF upper(filename) = s_README
            THEN ParentHeading(fp, vname, cfg, terms, s_dash_README)
       ELSE DefaultHeading(filename, cfg, terms)

----------------------------------------------------------------------------
(* Metadata Codec.  A text is the sequence of its lines as                 *)
(* str.splitlines(keepends=True) returns them; a line is what it says in   *)
(* YAML together with its line terminator:                                 *)
(*   delim    ---                    cont     an indented line "  <text>"  *)
(*   kv       key: scalar            flow     key: [a, b]                  *)
(*   key      key:                   item     - a                          *)
(*   qopen    key: 'a                qclose   "  b'"  (ends a quoted text) *)
(*   blank    an empty line          comment  # ...                        *)
(*   text     any other words        bad      key: [unclosed               *)
(* segs holds the lines of a scalar's text (or the items of a flow list),  *)
(* q the quoting of a kv scalar: plain, single or double (with \n escapes).*)

LF == "\n"
CRLF == "\r\n"
NOEOL == ""

Line(k, key, segs, q, eol) == [k |-> k, key |-> key, segs |-> segs, q |-> q, eol |-> eol]

s_dashes == <<"-","-","-">>
s_heading == <<"h","e","a","d","i","n","g">>
s_title == <<"t","i","t","l","e">>
s_tags == <<"t","a","g","s">>
s_text == <<"t","e","x","t">>
s_null == <<"n","u","l","l">>
s_colon_space == <<":"," ">>
s_T == <<"T">>
s_a == <<"a">>
s_b == <<"b">>
s_Old == <<"O","l","d">>
s_Body == <<"B","o","d","y">>
s_123 == <<"1","2","3">>

DelimLine(eol) == Line("delim", <<>>, <<>>, "", eol)
BlankLine(eol) == Line("blank", <<>>, <<>>, "", eol)

\* line.strip() == '---'
StripsToDelim(l) == l.k = "delim" \/ (l.k = "cont" /\ l.segs = <<s_dashes>>)

\* not content.strip(): nothing but whitespace
IsBlankText(c) == \A i \in DOMAIN c : c[i].k = "blank"

\* content.startswith('---\n') or content.startswith('---\r\n')
StartsWithDelimiter(c) ==
    c # <<>> /\ c[1].k = "delim" /\ c[1].eol \in {LF, CRLF}

(* The Python values yaml.safe_load returns.  A scalar or a list is         *)
(* [t, segs]; a document is [t, pairs, segs] with t one of map, str, list,  *)
(* none (Python None) and error (yaml.YAMLError raised).                    *)
Val(t, segs) == [t |-> t, segs |-> segs]
Pair(key, val) == [key |-> key, val |-> val]
Doc(t, pairs, segs) == [t |-> t, pairs |-> pairs, segs |-> segs]
NoneDoc == Doc("none", <<>>, <<>>)
ErrorDoc == Doc("error", <<>>, <<>>)
EmptyMap == Doc("map", <<>>, <<>>)

\* the implicit type YAML gives a plain scalar
Resolve(s) ==
    IF s = <<>> \/ s = s_null THEN "null"
    ELSE IF \A i \in DOMAIN s : s[i] \in Digits THEN "int"
    ELSE "str"

\* d[key] = val on a dict: an existing key keeps its position
SetKey(pairs, key, val) ==
    IF \E i \in DOMAIN pairs : pairs[i].key = key
    THEN [i \in DOMAIN pairs |-> IF pairs[i].key = key THEN Pair(key, val) ELSE pairs[i]]
    ELSE Append(pairs, Pair(key, val))

HasKey(pairs, key) == \E i \in DOMAIN pairs : pairs[i].key = key

\* the text of a quoted scalar that continues over the lines ls: a line
\* break folds to a space, n blank lines followed by text are n newlines
RECURSIVE FoldQuoted(_, _, _)
FoldQuoted(segs, blanks, ls) ==
    IF ls = <<>> THEN segs
    ELSE IF Head(ls).k = "blank" THEN FoldQuoted(segs, blanks + 1, Tail(ls))
    ELSE LET txt == Head(ls).segs[1]
             n == Len(segs)
         IN IF blanks = 0
            THEN FoldQuoted([segs EXCEPT ![n] = @ \o <<" ">> \o txt], 0, Tail(ls))
            ELSE FoldQuoted(segs \o [i \in 1..(blanks - 1) |-> <<>>] \o <<txt>>,
                            0, Tail(ls))

Significant(l) == l.k \notin {"blank", "comment"}

\* the block mapping that starts at line i of ls, added to pairs
RECURSIVE LoadMap(_, _, _)
LoadMap(ls, i, pairs) ==
    IF i > Len(ls) THEN Doc("map", pairs, <<>>)
    ELSE LET l == ls[i] IN
         CASE ~Significant(l) -> LoadMap(ls, i + 1, pairs)
           [] l.k = "kv" ->
                LET v == IF l.q = "plain" THEN Val(Resolve(l.segs[1]), l.segs)
                         ELSE Val("str", l.segs)
                IN LoadMap(ls, i + 1, SetKey(pairs, l.key, v))
           [] l.k = "flow" ->
                LoadMap(ls, i + 1, SetKey(pairs, l.key, Val("list", l.segs)))
           [] l.k = "key" ->
                LET after == {j \in (i + 1)..(Len(ls) + 1) :
                                 j = Len(ls) + 1 \/ ls[j].k # "item"}
                    e == CHOOSE j \in after : \A j2 \in after : j <= j2
                    v == IF e = i + 1 THEN Val("null", <<s_null>>)
                         ELSE Val("list", [j \in 1..(e - i - 1) |-> ls[i + j].segs[1]])
                IN LoadMap(ls, e, SetKey(pairs, l.key, v))
           [] l.k = "qopen" ->
                LET closes == {j \in (i + 1)..Len(ls) : ls[j].k = "qclose"}
                    c == IF closes = {} THEN 0
                         ELSE CHOOSE j \in closes : \A j2 \in closes : j <= j2
                IN IF c = 0 \/ \E j \in (i + 1)..(c - 1) : ls[j].k \notin {"blank", "cont"}
                   THEN ErrorDoc
                   ELSE LoadMap(ls, c + 1,
                            SetKey(pairs, l.key,
                                   Val("str", FoldQuoted(l.segs, 0, SubSeq(ls, i + 1, c)))))
           [] OTHER -> ErrorDoc

\* yaml.safe_load(fm_text)
safe_load(ls) ==
    LET sig == SelectSeq(ls, Significant) IN
    IF sig = <<>> THEN NoneDoc
    ELSE IF sig[1].k \in {"kv", "flow", "key", "qopen"} THEN LoadMap(ls, 1, <<>>)
    ELSE IF \A i \in DOMAIN sig : sig[i].k = "text"
         THEN Doc("str", <<>>, <<join(<<" ">>, [i \in DOMAIN sig |-> sig[i].segs[1]])>>)
    ELSE IF \A i \in DOMAIN sig : sig[i].k = "item"
         THEN Doc("list", <<>>, [i \in DOMAIN sig |-> sig[i].segs[1]])
    ELSE ErrorDoc

\* bool(value) of a loaded document
Truthy(d) ==
    CASE d.t = "none" -> FALSE
      [] d.t = "map" -> d.pairs # <<>>
      [] d.t = "str" -> d.segs # <<<<>>>>
      [] d.t = "list" -> d.segs # <<>>
      [] OTHER -> FALSE

\* a parser that, when the block is not valid YAML, keeps only what follows the
\* closing line as the body
ParseDropsInvalidBlock(c) ==
    IF IsBlankText(c) THEN [fm |-> NoneDoc, body |-> c]
    ELSE IF ~StartsWithDelimiter(c) THEN [fm |-> NoneDoc, body |-> c]
    ELSE LET closing == {i \in 2..Len(c) : StripsToDelim(c[i])} IN
         IF closing = {} THEN [fm |-> NoneDoc, body |-> c]
         ELSE LET i == CHOOSE j \in closing : \A j2 \in closing : j <= j2
                  body == SubSeq(c, i + 1, Len(c))
                  loaded == safe_load(SubSeq(c, 2, i - 1))
              IN IF loaded.t = "error" THEN [fm |-> NoneDoc, body |-> body]
                 ELSE [fm |-> IF Truthy(loaded) THEN loaded ELSE EmptyMap,
                       body |-> body]

\* HeadingProcessor._parse_frontmatter: returns [fm, body]
_parse_frontmatter(c) ==
    IF IsBlankText(c) THEN [fm |-> NoneDoc, body |-> c]
    ELSE IF ~StartsWithDelimiter(c) THEN [fm |-> NoneDoc, body |-> c]
    ELSE LET closing == {i \in 2..Len(c) : StripsToDelim(c[i])} IN
         IF closing = {} THEN [fm |-> NoneDoc, body |-> c]
         ELSE LET i == CHOOSE j \in closing : \A j2 \in closing : j <= j2
                  fm_text == SubSeq(c, 2, i - 1)
                  body == SubSeq(c, i + 1, Len(c))
                  loaded == safe_load(fm_text)
              IN IF loaded.t = "error" THEN [fm |-> NoneDoc, body |-> c]
                 ELSE [fm |-> IF Truthy(loaded) THEN loaded ELSE EmptyMap,
                       body |-> body]

\* the emitter quotes a string that would not read back as the same string
NeedsQuote(s) == Resolve(s) # "str" \/ contains(s, s_colon_space)

\* the lines yaml.dump writes for one key of a block mapping
DumpPair(p) ==
    LET v == p.val IN
    CASE v.t = "str" /\ Len(v.segs) > 1 ->
            <<Line("qopen", p.key, <<v.segs[1]>>, "single", LF)>>
            \o [j \in 1..(2 * (Len(v.segs) - 1)) |->
                   IF j % 2 = 1 THEN BlankLine(LF)
                   ELSE IF j = 2 * (Len(v.segs) - 1)
                        THEN Line("qclose", <<>>, <<v.segs[j \div 2 + 1]>>, "", LF)
                        ELSE Line("cont", <<>>, <<v.segs[j \div 2 + 1]>>, "", LF)]
      [] v.t = "str" /\ Len(v.segs) <= 1 ->
            <<Line("kv", p.key, v.segs,
                   IF NeedsQuote(v.segs[1]) THEN "single" ELSE "plain", LF)>>
      [] v.t = "list" /\ v.segs = <<>> -> <<Line("flow", p.key, <<>>, "", LF)>>
      [] v.t = "list" /\ v.segs # <<>> ->
            <<Line("key", p.key, <<>>, "", LF)>>
            \o [j \in DOMAIN v.segs |-> Line("item", <<>>, <<v.segs[j]>>, "", LF)]
      [] OTHER -> <<Line("kv", p.key, v.segs, "plain", LF)>>

\* yaml.dump(frontmatter, default_flow_style=False, allow_unicode=True, sort_keys=False)
RECURSIVE yaml_dump(_)
yaml_dump(pairs) ==
    IF pairs = <<>> THEN <<>> ELSE DumpPair(Head(pairs)) \o yaml_dump(Tail(pairs))

\* a serializer that forgets the closing delimiter line
ReconstructWithoutClosing(frontmatter, body) ==
    <<DelimLine(LF)>> \o yaml_dump(frontmatter.pairs) \o body

\* HeadingProcessor._reconstruct_content
_reconstruct_content(frontmatter, body) ==
    <<DelimLine(LF)>> \o yaml_dump(frontmatter.pairs) \o <<DelimLine(LF)>> \o body

\* 'heading' in frontmatter: a key of a dict, a substring of a str, an item of a list
HeadingIn(fm) ==
    CASE fm.t = "map" -> HasKey(fm.pairs, s_heading)
      [] fm.t = "str" -> contains(join(<<LF>>, fm.segs), s_heading)
      [] fm.t = "list" -> \E i \in DOMAIN fm.segs : fm.segs[i] = s_heading
      [] OTHER -> FALSE

\* a test that never skips
SkipsNever(fm, cfg) == FALSE

\* _process_file, lines 164 to 167: the file is skipped
SkipsExisting(fm, cfg) == Truthy(fm) /\ HeadingIn(fm) /\ cfg.skip_existing

\* _process_file, lines 173 to 175: frontmatter['heading'] = heading_value
\* succeeds on a dict (None has become {}) and raises TypeError on a str or a list
CanSetHeading(fm) == fm.t \in {"none", "map"}
SetHeading(fm, value) ==
    Doc("map", SetKey(fm.pairs, s_heading, Val("str", <<value>>)), <<>>)

NoParse == [fm |-> NoneDoc, body |-> <<>>]

----------------------------------------------------------------------------
(* The codec on its own: a text is drawn, parsed, given its heading,       *)
(* serialized and parsed again.                                            *)

MaxFm == 2

SeqsUpTo(S, n) == UNION {[1..k -> S] : k \in 0..n}

FmLines(eol) == {
    Line("kv", s_title, <<s_T>>, "plain", eol),
    Line("kv", s_heading, <<s_Old>>, "plain", eol),
    Line("kv", s_text, <<s_a, s_dashes, s_b>>, "double", eol),
    Line("flow", s_tags, <<s_a>>, "", eol),
    Line("text", <<>>, <<s_Body>>, "", eol),
    Line("bad", <<>>, <<>>, "", eol),
    BlankLine(eol) }

\* what follows the block: nothing, a line of words, or a line of three dashes
Bodies(eol) == {<<>>, <<Line("text", <<>>, <<s_Body>>, "", eol)>>, <<DelimLine(eol)>>}

\* the closing line of a block: none, ---, or an indented ---
ClosingLines(eol) == {<<>>, <<DelimLine(eol)>>, <<Line("cont", <<>>, <<s_dashes>>, "", eol)>>}

\* a first line that does not open a block: an indented ---, words, an empty line
NonOpeningLines(eol) == {
    Line("cont", <<>>, <<s_dashes>>, "", eol),
    Line("text", <<>>, <<s_Body>>, "", eol),
    BlankLine(eol) }

\* the last line of a file may lack its terminator
WithoutFinalEol(ls) ==
    IF ls = <<>> THEN ls ELSE [ls EXCEPT ![Len(ls)].eol = NOEOL]

TextsWith(eol) ==
    {<<DelimLine(eol)>> \o fm \o close \o body :
        fm \in SeqsUpTo(FmLines(eol), MaxFm),
        close \in ClosingLines(eol), body \in Bodies(eol)}
    \cup {<<>>}
    \cup {<<first>> \o rest :
            first \in NonOpeningLines(eol),
            rest \in {<<>>, <<DelimLine(eol),
                              Line("kv", s_title, <<s_T>>, "plain", eol),
                              DelimLine(eol)>>}}

Texts == TextsWith(LF) \cup TextsWith(CRLF) \cup {WithoutFinalEol(t) : t \in TextsWith(LF)}

\* notes/meeting-template.md: its heading "Template: meeting-template" needs quotes
CodecPath == [dirs |-> <<s_notes>>, name |-> s_meeting_template \o s_md]

CodecInit ==
    /\ config = [dry_run |-> FALSE, backup |-> FALSE, skip_existing |-> TRUE,
                 title_case |-> FALSE, preserve_case |-> FALSE,
                 exclude_dirs |-> <<>>, include_patterns |-> <<>>]
    /\ DAILY_NOTE_PATTERNS = DefaultDailyNotePatterns
    /\ TEMPLATE_PATTERNS = DefaultTemplatePatterns
    /\ PRESERVE_TERMS = DefaultPreserveTerms
    /\ vault_name = s_vault
    /\ file_path = CodecPath
    /\ heading_value = <<>>
    /\ tc = [text |-> <<>>, result |-> <<>>]
    /\ content \in Texts
    /\ parsed = NoParse
    /\ new_content = <<>>
    /\ reparsed = NoParse
    /\ fs = <<>>
    /\ md_files = <<>>
    /\ outcome = <<>>
    /\ stats = ZeroStats
    /\ summary = NoSummary
    /\ run = 1
    /\ fs_before = <<>>
    /\ faults = 0
    /\ vault_kind = "dir"
    /\ args = DefaultArgs
    /\ sidecar = MissingSidecar
    /\ file_config = NoneCfg
    /\ exit_code = NotReturned
    /\ warnings = 0
    /\ merges = 0
    /\ pc = "start"

\* line 161
ParseFrontmatter ==
    /\ pc = "start"
    /\ parsed' = _parse_frontmatter(content)
    /\ pc' = "parsed"
    /\ UNCHANGED <<config, tables, vault_name, file_path, heading_value, tc,
                   content, new_content, reparsed, vaultVars,
                   mainVars>>

\* lines 164 to 167
SkipExisting ==
    /\ pc = "parsed"
    /\ SkipsExisting(parsed.fm, config)
    /\ pc' = "skipped"
    /\ UNCHANGED <<config, tables, vault_name, file_path, heading_value, tc, codecVars, vaultVars,
                   mainVars>>

\* lines 170 to 178
AddHeading ==
    /\ pc = "parsed"
    /\ ~SkipsExisting(parsed.fm, config)
    /\ CanSetHeading(parsed.fm)
    /\ heading_value' = _generate_heading_value(file_path, vault_name, config,
                            DAILY_NOTE_PATTERNS, TEMPLATE_PATTERNS, PRESERVE_TERMS)
    /\ new_content' = _reconstruct_content(SetHeading(parsed.fm, heading_value'),
                                           parsed.body)
    /\ pc' = "written"
    /\ UNCHANGED <<config, tables, vault_name, file_path, tc, content, parsed, reparsed,
                   vaultVars,
                   mainVars>>

\* line 175 raising TypeError: the frontmatter is a str or a list
AddHeadingTypeError ==
    /\ pc = "parsed"
    /\ ~SkipsExisting(parsed.fm, config)
    /\ ~CanSetHeading(parsed.fm)
    /\ pc' = "error"
    /\ UNCHANGED <<config, tables, vault_name, file_path, heading_value, tc, codecVars, vaultVars,
                   mainVars>>

\* the text written is parsed again, as the next run does
Reparse ==
    /\ pc = "written"
    /\ reparsed' = _parse_frontmatter(new_content)
    /\ pc' = "reparsed"
    /\ UNCHANGED <<config, tables, vault_name, file_path, heading_value, tc,
                   content, parsed, new_content, vaultVars,
                   mainVars>>

CodecNext == ParseFrontmatter \/ SkipExisting \/ AddHeading \/ AddHeadingTypeError \/ Reparse

SpecCodec == CodecInit /\ [][CodecNext]_vars

----------------------------------------------------------------------------
(* Vault Walker                                                            *)

s_obsidian == <<".","o","b","s","i","d","i","a","n">>
s_canvas == <<".","c","a","n","v","a","s">>
s_excalidraw_md == <<".","e","x","c","a","l","i","d","r","a","w",".","m","d">>
s_bak == <<".","b","a","k">>
s_dot == <<".">>
s_config == <<"c","o","n","f","i","g">>
s_drawing == <<"d","r","a","w","i","n","g">>
s_board == <<"b","o","a","r","d">>
s_plugin == <<"p","l","u","g","i","n">>
s_MD == <<".","M","D">>

\* the characters of the model in code point order, for the comparison of strings
Ascii == <<" ", "*", "-", ".", "/", "0", "1", "2", "3", "4", "5", "6", "7", "8", "9",
           ":", "A", "B", "C", "D", "E", "F", "G", "H", "I", "J", "K", "L", "M", "N",
           "O", "P", "Q", "R", "S", "T", "U", "V", "W", "X", "Y", "Z", "\\", "_",
           "a", "b", "c", "d", "e", "f", "g", "h", "i", "j", "k", "l", "m", "n",
           "o", "p", "q", "r", "s", "t", "u", "v", "w", "x", "y", "z">>
CharRank(c) == CHOOSE i \in DOMAIN Ascii : Ascii[i] = c

\* a < b for two str
RECURSIVE StrLess(_, _)
StrLess(a, b) ==
    IF b = <<>> THEN FALSE
    ELSE IF a = <<>> THEN TRUE
    ELSE IF Head(a) = Head(b) THEN StrLess(Tail(a), Tail(b))
    ELSE CharRank(Head(a)) < CharRank(Head(b))

\* p < q for two Path: their parts are compared as tuples of str
RECURSIVE PartsLess(_, _)
PartsLess(p, q) ==
    IF q = <<>> THEN FALSE
    ELSE IF p = <<>> THEN TRUE
    ELSE IF Head(p) = Head(q) THEN PartsLess(Tail(p), Tail(q))
    ELSE StrLess(Head(p), Head(q))

Parts(fp) == fp.dirs \o <<fp.name>>

\* the files in the reverse of that order
RECURSIVE SortedDescending(_)
SortedDescending(paths) ==
    IF paths = {} THEN <<>>
    ELSE LET first == CHOOSE f \in paths :
                 \A g \in paths \ {f} : PartsLess(Parts(g), Parts(f))
         IN <<first>> \o SortedDescending(paths \ {first})

\* sorted(md_files)
RECURSIVE sorted(_)
sorted(paths) ==
    IF paths = {} THEN <<>>
    ELSE LET first == CHOOSE f \in paths :
                 \A g \in paths \ {f} : PartsLess(Parts(f), Parts(g))
         IN <<first>> \o sorted(paths \ {first})

\* an exclusion test that compares the exclusion strings with directory names
ShouldExcludeByName(dirs, cfg) ==
    \/ \E i \in DOMAIN dirs : dirs[i] = s_obsidian
    \/ \E i \in DOMAIN cfg.exclude_dirs : \E j \in DOMAIN dirs : dirs[j] = cfg.exclude_dirs[i]

\* HeadingProcessor._should_exclude_directory, for the directory with parts dirs
_should_exclude_directory(dirs, cfg) ==
    LET rel_str == IF dirs = <<>> THEN s_dot
                   ELSE replace(join(<<"/">>, dirs), "\\", "/")
    IN \/ \E i \in DOMAIN dirs : dirs[i] = s_obsidian
       \/ \E i \in DOMAIN cfg.exclude_dirs : contains(rel_str, cfg.exclude_dirs[i])

\* os.walk reaches a directory unless it or a directory above it was pruned
Walked(dirs, cfg) ==
    \A k \in 0..Len(dirs) : ~_should_exclude_directory(SubSeq(dirs, 1, k), cfg)

\* a test for special files that knows the canvas suffix only
IsSpecialCanvasOnly(name) == endswith(name, s_canvas)

\* lines 127 and 131
IsMarkdown(name) == endswith(lower(name), s_md)
IsSpecial(name) == endswith(name, s_canvas) \/ endswith(name, s_excalidraw_md)

\* HeadingProcessor._find_markdown_files: the list returned and the number of
\* special files counted
_find_markdown_files(fsys, cfg) ==
    LET seen == {f \in DOMAIN fsys : Walked(f.dirs, cfg) /\ IsMarkdown(f.name)}
    IN [md_files |-> sorted({f \in seen : ~IsSpecial(f.name)}),
        skipped_special |-> Cardinality({f \in seen : IsSpecial(f.name)})]

----------------------------------------------------------------------------
(* File Processor                                                          *)

\* open(..., 'r') translates every line terminator to '\n'
ReadText(ls) == [i \in DOMAIN ls |-> IF ls[i].eol = CRLF THEN [ls[i] EXCEPT !.eol = LF]
                                     ELSE ls[i]]

\* os.linesep of the host
os_linesep == LF

\* open(..., 'w') writes '\n' as os.linesep
WriteText(ls) == [i \in DOMAIN ls |-> IF ls[i].eol = LF THEN [ls[i] EXCEPT !.eol = os_linesep]
                                      ELSE ls[i]]

\* a backup path that replaces the suffix: file_path.with_suffix('.bak')
BackupPathReplacesSuffix(fp) == [dirs |-> fp.dirs, name |-> PathStem(fp.name) \o s_bak]

\* file_path.with_suffix(file_path.suffix + '.bak')
BackupPath(fp) == [dirs |-> fp.dirs, name |-> fp.name \o s_bak]

\* a test that ignores dry_run
WritesAlways(cfg) == TRUE

\* line 181
WritesFile(cfg) == ~cfg.dry_run

\* an except clause that raises the exception again
ExceptClauseRaises == "raised"

\* lines 192 to 194: the exception is logged and counted, and not raised again
ExceptClause == "errors"

\* the files with path fp holding file d
Put(fsys, fp, d) == [g \in DOMAIN fsys \cup {fp} |-> IF g = fp THEN d ELSE fsys[g]]

\* the frontmatter of the text of a readable file
ParsedFile(d) == _parse_frontmatter(ReadText(d.content))

\* whether _process_file gets as far as line 181 with dry_run off
ReachesWrite(d, cfg) ==
    /\ d.readable
    /\ ~SkipsExisting(ParsedFile(d).fm, cfg)
    /\ CanSetHeading(ParsedFile(d).fm)
    /\ WritesFile(cfg)

\* HeadingProcessor._process_file on fp; fault is the failure the environment
\* produces during the call: none, copy (shutil.copy2 raises), write (write_text
\* raises before it has truncated the file) or truncate (write_text raises after)
_process_file(fp, fsys, cfg, vname, daily, templ, terms, fault) ==
    LET d == fsys[fp]
        p == ParsedFile(d)
        value == _generate_heading_value(fp, vname, cfg, daily, templ, terms)
        text == _reconstruct_content(SetHeading(p.fm, value), p.body)
        saved == IF cfg.backup THEN Put(fsys, BackupPath(fp), d) ELSE fsys
    IN IF ~d.readable
       THEN [outcome |-> ExceptClause, fs |-> fsys, heading |-> <<>>]
       ELSE IF SkipsExisting(p.fm, cfg)
       THEN [outcome |-> "skipped_existing", fs |-> fsys, heading |-> <<>>]
       ELSE IF ~CanSetHeading(p.fm)
       THEN [outcome |-> ExceptClause, fs |-> fsys, heading |-> value]
       ELSE IF ~WritesFile(cfg)
       THEN [outcome |-> "processed", fs |-> fsys, heading |-> value]
       ELSE IF cfg.backup /\ fault = "copy"
       THEN [outcome |-> ExceptClause, fs |-> fsys, heading |-> value]
       ELSE IF fault = "write"
       THEN [outcome |-> ExceptClause, fs |-> saved, heading |-> value]
       ELSE IF fault = "truncate"
       THEN [outcome |-> ExceptClause, heading |-> value,
             fs |-> Put(saved, fp, [d EXCEPT !.content = <<>>])]
       ELSE [outcome |-> "processed", heading |-> value,
             fs |-> Put(saved, fp, [d EXCEPT !.content = WriteText(text)])]

----------------------------------------------------------------------------
(* process_vault run on a vault, twice.                                    *)

MaxFiles == 2
MaxFaults == 1

\* the texts of the files of a vault: one without frontmatter, one written on
\* Windows with a title, one with a heading, one with a value of several lines,
\* and one whose frontmatter is a scalar
PlainText == <<Line("text", <<>>, <<s_Body>>, "", LF)>>
TitledText == <<DelimLine(CRLF), Line("kv", s_title, <<s_T>>, "plain", CRLF),
                DelimLine(CRLF), Line("text", <<>>, <<s_Body>>, "", CRLF)>>
HeadedText == <<DelimLine(LF), Line("kv", s_heading, <<s_Old>>, "plain", LF),
                DelimLine(LF), Line("text", <<>>, <<s_Body>>, "", LF)>>
MultiLineText == <<DelimLine(LF), Line("kv", s_text, <<s_a, s_dashes, s_b>>, "double", LF),
                   DelimLine(LF)>>
ScalarText == <<DelimLine(LF), Line("text", <<>>, <<s_Body>>, "", LF), DelimLine(LF)>>

Readable(t) == [content |-> t, readable |-> TRUE]
\* a file that cannot be read as UTF-8 text
Unreadable == [content |-> PlainText, readable |-> FALSE]

\* the markdown files a vault can have, in the order they are added to it, each
\* with the files it can be
VaultFiles == <<
    [path |-> [dirs |-> <<s_notes>>, name |-> s_my_note \o s_MD],
     files |-> {Readable(PlainText), Readable(TitledText), Readable(HeadedText)}],
    [path |-> [dirs |-> <<s_daily_notes>>, name |-> s_date \o s_md],
     files |-> {Readable(MultiLineText), Readable(ScalarText), Unreadable}],
    [path |-> [dirs |-> <<s_notes>>, name |-> s_meeting_template \o s_md],
     files |-> {Readable(HeadedText), Readable(MultiLineText)}],
    [path |-> [dirs |-> <<s_projects>>, name |-> s_README \o s_md],
     files |-> {Readable(TitledText), Unreadable}] >>

\* the files every vault has besides them: markdown files below .obsidian
\* directories, an excalidraw drawing in a walked and one in a pruned directory,
\* and a canvas
OtherFiles ==
    LET p1 == [dirs |-> <<s_obsidian>>, name |-> s_config \o s_md]
        p2 == [dirs |-> <<s_notes>>, name |-> s_drawing \o s_excalidraw_md]
        p3 == [dirs |-> <<s_obsidian>>, name |-> s_drawing \o s_excalidraw_md]
        p4 == [dirs |-> <<s_notes, s_obsidian>>, name |-> s_plugin \o s_md]
        p5 == [dirs |-> <<s_notes>>, name |-> s_board \o s_canvas]
    IN [g \in {p1, p2, p3, p4, p5} |-> Readable(PlainText)]

Vaults ==
    UNION {{[g \in DOMAIN OtherFiles \cup {VaultFiles[j].path : j \in 1..k} |->
                IF g \in DOMAIN OtherFiles THEN OtherFiles[g]
                ELSE pick[CHOOSE j \in 1..k : VaultFiles[j].path = g]] :
            pick \in {q \in [1..k -> UNION {VaultFiles[j].files : j \in 1..k}] :
                         \A j \in 1..k : q[j] \in VaultFiles[j].files}} :
           k \in 0..MaxFiles}

VaultInit ==
    /\ config \in [dry_run : BOOLEAN, backup : BOOLEAN, skip_existing : BOOLEAN,
                   title_case : {FALSE}, preserve_case : {FALSE},
                   exclude_dirs : {<<>>}, include_patterns : {<<>>}]
    /\ DAILY_NOTE_PATTERNS = DefaultDailyNotePatterns
    /\ TEMPLATE_PATTERNS = DefaultTemplatePatterns
    /\ PRESERVE_TERMS = DefaultPreserveTerms
    /\ vault_name = s_vault
    /\ file_path = [dirs |-> <<>>, name |-> <<>>]
    /\ heading_value = <<>>
    /\ tc = [text |-> <<>>, result |-> <<>>]
    /\ content = <<>>
    /\ parsed = NoParse
    /\ new_content = <<>>
    /\ reparsed = NoParse
    /\ fs \in Vaults
    /\ md_files = <<>>
    /\ outcome = <<>>
    /\ stats = ZeroStats
    /\ summary = NoSummary
    /\ run = 1
    /\ fs_before = fs
    /\ faults = 0
    /\ vault_kind = "dir"
    /\ args = DefaultArgs
    /\ sidecar = MissingSidecar
    /\ file_config = NoneCfg
    /\ exit_code = NotReturned
    /\ warnings = 0
    /\ merges = 0
    /\ pc = "idle"

\* process_vault, lines 87 to 101: the files are listed; with none, it returns
StartRun ==
    /\ pc = "idle"
    /\ LET found == _find_markdown_files(fs, config) IN
         /\ md_files' = found.md_files
         /\ stats' = [stats EXCEPT !.skipped_special = @ + found.skipped_special]
         /\ pc' = IF Len(found.md_files) = 0 THEN "returned" ELSE "loop"
    /\ outcome' = <<>>
    /\ fs_before' = fs
    /\ UNCHANGED <<config, tables, vault_name, file_path, heading_value, tc, codecVars,
                   fs, summary, run, faults,
                   mainVars>>

\* process_vault, lines 104 to 107: one turn of the loop
ProcessFile ==
    /\ pc = "loop"
    /\ Len(outcome) < Len(md_files)
    /\ LET fp == md_files[Len(outcome) + 1] IN
       \E fault \in {"none", "copy", "write", "truncate"} :
         /\ fault # "none" =>
               /\ faults < MaxFaults
               /\ ReachesWrite(fs[fp], config)
               /\ fault = "copy" => config.backup
         /\ LET r == _process_file(fp, fs, config, vault_name, DAILY_NOTE_PATTERNS,
                                   TEMPLATE_PATTERNS, PRESERVE_TERMS, fault)
                raised == r.outcome = "raised"
            IN /\ fs' = r.fs
               /\ outcome' = IF raised THEN outcome ELSE Append(outcome, r.outcome)
               /\ stats' = IF raised THEN stats ELSE [stats EXCEPT ![r.outcome] = @ + 1]
               /\ file_path' = fp
               /\ heading_value' = r.heading
               /\ faults' = IF fault = "none" THEN faults ELSE faults + 1
               /\ pc' = IF raised THEN "aborted"
                        ELSE IF Len(outcome) + 1 = Len(md_files) THEN "summary"
                        ELSE "loop"
    /\ UNCHANGED <<config, tables, vault_name, tc, codecVars, md_files, summary, run,
                   fs_before,
                   mainVars>>

\* a summary whose total leaves out the special files
PrintSummaryOmitsSpecial ==
    /\ pc = "summary"
    /\ summary' = [printed |-> TRUE, processed |-> stats.processed,
                   skipped_existing |-> stats.skipped_existing,
                   skipped_special |-> stats.skipped_special, errors |-> stats.errors,
                   total |-> stats.processed + stats.skipped_existing + stats.errors]
    /\ pc' = "done"
    /\ UNCHANGED <<config, tables, vault_name, file_path, heading_value, tc, codecVars,
                   fs, md_files, outcome, stats, run, fs_before, faults,
                   mainVars>>

\* process_vault, line 110, and _print_summary
PrintSummary ==
    /\ pc = "summary"
    /\ summary' = [printed |-> TRUE, processed |-> stats.processed,
                   skipped_existing |-> stats.skipped_existing,
                   skipped_special |-> stats.skipped_special, errors |-> stats.errors,
                   total |-> stats.processed + stats.skipped_existing
                             + stats.skipped_special + stats.errors]
    /\ pc' = "done"
    /\ UNCHANGED <<config, tables, vault_name, file_path, heading_value, tc, codecVars,
                   fs, md_files, outcome, stats, run, fs_before, faults,
                   mainVars>>

\* the program is run again on the same vault: HeadingProcessor.__init__
SecondRun ==
    /\ pc \in {"done", "returned"}
    /\ run = 1
    /\ run' = 2
    /\ stats' = ZeroStats
    /\ summary' = NoSummary
    /\ md_files' = <<>>
    /\ outcome' = <<>>
    /\ pc' = "idle"
    /\ UNCHANGED <<config, tables, vault_name, file_path, heading_value, tc, codecVars,
                   fs, fs_before, faults,
                   mainVars>>

VaultNext == StartRun \/ ProcessFile \/ PrintSummary \/ SecondRun

SpecVault == VaultInit /\ [][VaultNext]_vars

\* a run that has entered the loop goes on, the loop and the summary being plain
\* sequential code: weak fairness of each step. ProcessFile is enabled exactly
\* when pc = "loop" (a turn of the loop always has an outcome), and its weak
\* fairness is written with that condition in the place of ENABLED
SpecVaultLive ==
    /\ SpecVault
    /\ WF_vars(PrintSummary)
    /\ ([]<>(pc # "loop") \/ []<><<ProcessFile>>_vars)

----------------------------------------------------------------------------
(* ConfigFileLoader and main                                                *)

s_diary == <<"d","i","a","r","y","/">>
s_tpl == <<"t","p","l","/">>
s_Docker == <<"D","o","c","k","e","r">>
s_trash == <<"t","r","a","s","h">>
s_comma == ","
s_cli_exclude == <<" ","d","r","a","f","t","s"," ",",","o","l","d">>

\* str.split(sep) with a separator of one character
RECURSIVE split_on(_, _)
split_on(s, sep) ==
    LET at == {i \in 1..Len(s) : s[i] = sep} IN
    IF at = {} THEN <<s>>
    ELSE LET i == CHOOSE k \in at : \A j \in at : k <= j
         IN <<SubSeq(s, 1, i - 1)>> \o split_on(DropFirst(s, i), sep)

\* str.rstrip() and str.strip() of whitespace
RECURSIVE rstrip(_)
rstrip(s) == IF s # <<>> /\ s[Len(s)] \in Whitespace THEN rstrip(DropLast(s, 1)) ELSE s
strip(s) == rstrip(lstrip(s))

\* lines 376 to 381: a comma-separated option as a list; None and the empty
\* string leave the empty list of Config.__post_init__
CommaList(s) ==
    IF s = <<>> THEN <<>>
    ELSE LET parts == split_on(s, s_comma) IN [i \in DOMAIN parts |-> strip(parts[i])]

\* a table entry of the sidecar as re.search reads it; the entries of the
\* modelled sidecars have no regular expression metacharacter
Pattern(s) == Lits(s)

\* load_config_file: what it returns and whether it logged a warning
load_config_file(sc) ==
    IF sc.k = "missing" THEN [value |-> NoneCfg, warned |-> FALSE]
    ELSE IF sc.k \in {"invalid", "unreadable"} THEN [value |-> NoneCfg, warned |-> TRUE]
    ELSE [value |-> sc.doc, warned |-> FALSE]

\* bool(file_config): None and the empty mapping are false; the list and the
\* integer of the model are a non-empty list and a non-zero integer
TruthyConfig(fc) ==
    \/ fc.t \in {"list", "int"}
    \/ /\ fc.t = "map"
       /\ \/ fc.daily_note_patterns.t # "absent"
          \/ fc.template_directories.t # "absent"
          \/ fc.title_case.t # "absent"
          \/ fc.exclude_patterns.t # "absent"

\* list.extend(v), reduced to the result when v is replaced by nothing: the
\* table is lost
ReplaceList(table, v) == [raised |-> v.t = "scalar", v |-> IF v.t = "list" THEN v.items ELSE table]

\* list.extend(v): a TypeError when v is not iterable
ExtendList(table, v) ==
    [raised |-> v.t = "scalar", v |-> IF v.t = "list" THEN table \o v.items ELSE table]

\* Config(...) of lines 365 to 381
CliConfig(a) ==
    [dry_run |-> a.dry_run, backup |-> a.backup, skip_existing |-> a.skip_existing,
     title_case |-> a.title_case, preserve_case |-> a.preserve_case,
     exclude_dirs |-> CommaList(a.exclude_dirs),
     include_patterns |-> CommaList(a.include_patterns)]

\* merge_config: the Config it returns, or raised with the Config not returned,
\* and the class-level tables as the call leaves them. A statement that raises
\* ends the call with the tables as the statements before it left them.
merge_config(a, fc, daily, templ, terms) ==
    LET cli == CliConfig(a)
        none == [raised |-> FALSE, config |-> cli, daily |-> daily, templ |-> templ,
                 terms |-> terms]
        pats(v) == [t |-> v.t, items |-> [i \in DOMAIN v.items |-> Pattern(v.items[i])]]
        \* line 386 and 387
        d == IF fc.daily_note_patterns.t = "absent" THEN [raised |-> FALSE, v |-> daily]
             ELSE ExtendList(daily, pats(fc.daily_note_patterns))
        \* lines 389 and 390
        t == IF d.raised THEN [raised |-> TRUE, v |-> templ]
             ELSE IF fc.template_directories.t = "absent" THEN [raised |-> FALSE, v |-> templ]
             ELSE ExtendList(templ, pats(fc.template_directories))
        \* lines 392 to 395: 'preserve_terms' in tc_config raises for a scalar,
        \* and so does set.update
        tcase == fc.title_case
        p == IF t.raised THEN [raised |-> TRUE, v |-> terms]
             ELSE IF tcase.t = "absent" THEN [raised |-> FALSE, v |-> terms]
             ELSE IF tcase.t = "scalar" THEN [raised |-> TRUE, v |-> terms]
             ELSE IF tcase.preserve_terms.t = "absent" THEN [raised |-> FALSE, v |-> terms]
             ELSE IF tcase.preserve_terms.t = "scalar" THEN [raised |-> TRUE, v |-> terms]
             ELSE [raised |-> FALSE,
                   v |-> terms \cup {tcase.preserve_terms.items[i] :
                                       i \in DOMAIN tcase.preserve_terms.items}]
        \* lines 397 and 398
        e == IF p.raised THEN [raised |-> TRUE, v |-> cli.exclude_dirs]
             ELSE IF fc.exclude_patterns.t = "absent"
                  THEN [raised |-> FALSE, v |-> cli.exclude_dirs]
             ELSE ExtendList(cli.exclude_dirs, fc.exclude_patterns)
    IN IF ~TruthyConfig(fc) \/ fc.t = "list" THEN none
       \* 'daily_note_patterns' in 5 is a TypeError
       ELSE IF fc.t = "int" THEN [none EXCEPT !.raised = TRUE]
       ELSE [raised |-> e.raised, config |-> [cli EXCEPT !.exclude_dirs = e.v],
             daily |-> d.v, templ |-> t.v, terms |-> p.v]

\* the value of a return of main after the run, reduced to one that reports
\* the files that ended in errors
ReturnCodeCountsErrors(st) == IF st.errors > 0 THEN 1 ELSE 0

\* line 455
ReturnCode(st) == 0

\* the sidecars of the model: no file, a file that is not YAML, a file that
\* cannot be opened, and YAML documents
FullCfg ==
    CfgDoc("map", ListV(<<s_diary>>), ListV(<<s_tpl>>),
           TitleCaseV("map", ListV(<<s_Docker>>)), ListV(<<s_trash>>))
ExcludeOnlyCfg ==
    CfgDoc("map", AbsentV, AbsentV, TitleCaseV("map", AbsentV), ListV(<<s_trash, s_diary>>))
EmptyMapCfg == CfgDoc("map", AbsentV, AbsentV, TitleCaseV("absent", AbsentV), AbsentV)
BoolTitleCaseCfg ==
    CfgDoc("map", ListV(<<s_diary>>), AbsentV, TitleCaseV("scalar", AbsentV), AbsentV)
ScalarTemplatesCfg ==
    CfgDoc("map", AbsentV, ScalarV, TitleCaseV("absent", AbsentV), ListV(<<s_trash>>))
ScalarTermsCfg ==
    CfgDoc("map", AbsentV, ListV(<<s_tpl>>), TitleCaseV("map", ScalarV), AbsentV)
ListCfg == CfgDoc("list", AbsentV, AbsentV, TitleCaseV("absent", AbsentV), AbsentV)
IntCfg == CfgDoc("int", AbsentV, AbsentV, TitleCaseV("absent", AbsentV), AbsentV)
Sidecars ==
    {MissingSidecar, [k |-> "invalid", doc |-> NoneCfg], [k |-> "unreadable", doc |-> NoneCfg]}
    \cup {[k |-> "yaml", doc |-> d] :
            d \in {NoneCfg, FullCfg, ExcludeOnlyCfg, EmptyMapCfg, BoolTitleCaseCfg,
                   ScalarTemplatesCfg, ScalarTermsCfg, ListCfg, IntCfg}}

\* an option --skip-existing that is off unless it is given
ParseArgsSkipOffByDefault(argv) ==
    [dry_run |-> "--dry-run" \in argv.flags, backup |-> "--backup" \in argv.flags,
     skip_existing |-> "--skip-existing" \in argv.flags,
     title_case |-> "--title-case" \in argv.flags,
     preserve_case |-> "--preserve-case" \in argv.flags,
     exclude_dirs |-> argv.exclude_dirs, include_patterns |-> argv.include_patterns]

\* parser.parse_args(), lines 417 to 435: the store_true options are true when
\* given and have their default otherwise, which is False but for
\* --skip-existing, whose default is True
parse_args(argv) ==
    [dry_run |-> "--dry-run" \in argv.flags, backup |-> "--backup" \in argv.flags,
     skip_existing |-> IF "--skip-existing" \in argv.flags THEN TRUE ELSE TRUE,
     title_case |-> "--title-case" \in argv.flags,
     preserve_case |-> "--preserve-case" \in argv.flags,
     exclude_dirs |-> argv.exclude_dirs, include_patterns |-> argv.include_patterns]

\* the command lines of the model
CommandLines ==
    [flags : SUBSET {"--dry-run", "--skip-existing"},
     exclude_dirs : {<<>>, s_cli_exclude}, include_patterns : {<<>>}]

MainArgs == {parse_args(argv) : argv \in CommandLines}

\* the vaults main is run on: no matched file, a file without or with a
\* heading, and with it a file that cannot be read
MainVaults ==
    {v \in Vaults : \A g \in DOMAIN v \ DOMAIN OtherFiles :
                       v[g] \in {Readable(PlainText), Readable(HeadedText), Unreadable}}

MainInit ==
    /\ vault_kind \in {"missing", "file", "dir"}
    /\ args \in MainArgs
    /\ IF vault_kind = "dir" THEN fs \in MainVaults /\ sidecar \in Sidecars
       ELSE fs = <<>> /\ sidecar = MissingSidecar
    /\ config = CliConfig(DefaultArgs)
    /\ DAILY_NOTE_PATTERNS = DefaultDailyNotePatterns
    /\ TEMPLATE_PATTERNS = DefaultTemplatePatterns
    /\ PRESERVE_TERMS = DefaultPreserveTerms
    /\ vault_name = s_vault
    /\ file_path = [dirs |-> <<>>, name |-> <<>>]
    /\ heading_value = <<>>
    /\ tc = [text |-> <<>>, result |-> <<>>]
    /\ content = <<>>
    /\ parsed = NoParse
    /\ new_content = <<>>
    /\ reparsed = NoParse
    /\ md_files = <<>>
    /\ outcome = <<>>
    /\ stats = ZeroStats
    /\ summary = NoSummary
    /\ run = 1
    /\ fs_before = fs
    /\ faults = 0
    /\ file_config = NoneCfg
    /\ exit_code = NotReturned
    /\ warnings = 0
    /\ merges = 0
    /\ pc = "main"

\* main, lines 437 to 445
ValidateVaultPath ==
    /\ pc = "main"
    /\ IF vault_kind = "dir" THEN pc' = "load" /\ exit_code' = exit_code
       ELSE pc' = "exited" /\ exit_code' = 1
    /\ UNCHANGED <<config, tables, vault_name, file_path, heading_value, tc, codecVars,
                   vaultVars, vault_kind, args, sidecar, file_config, warnings, merges>>

\* main, line 448
LoadConfigFile ==
    /\ pc = "load"
    /\ LET r == load_config_file(sidecar) IN
         /\ file_config' = r.value
         /\ warnings' = IF r.warned THEN warnings + 1 ELSE warnings
    /\ pc' = "merge"
    /\ UNCHANGED <<config, tables, vault_name, file_path, heading_value, tc, codecVars,
                   vaultVars, vault_kind, args, sidecar, exit_code, merges>>

\* main, lines 449 and 452: merge_config(args, file_config or {}) and
\* HeadingProcessor(config); an exception of merge_config leaves main
MergeConfig ==
    /\ pc = "merge"
    /\ LET r == merge_config(args, IF TruthyConfig(file_config) THEN file_config ELSE EmptyMapCfg,
                             DAILY_NOTE_PATTERNS, TEMPLATE_PATTERNS, PRESERVE_TERMS) IN
         /\ DAILY_NOTE_PATTERNS' = r.daily
         /\ TEMPLATE_PATTERNS' = r.templ
         /\ PRESERVE_TERMS' = r.terms
         /\ config' = IF r.raised THEN config ELSE r.config
         /\ pc' = IF r.raised THEN "crashed" ELSE "idle"
    /\ merges' = merges + 1
    /\ stats' = ZeroStats
    /\ UNCHANGED <<vault_name, file_path, heading_value, tc, codecVars,
                   fs, md_files, outcome, summary, run, fs_before, faults,
                   vault_kind, args, sidecar, file_config, exit_code, warnings>>

\* main, line 455, after process_vault has returned
MainReturn ==
    /\ pc \in {"done", "returned"}
    /\ exit_code' = ReturnCode(stats)
    /\ pc' = "exited"
    /\ UNCHANGED <<config, tables, vault_name, file_path, heading_value, tc, codecVars,
                   vaultVars, vault_kind, args, sidecar, file_config, warnings, merges>>

MainNext ==
    \/ ValidateVaultPath \/ LoadConfigFile \/ MergeConfig
    \/ StartRun \/ ProcessFile \/ PrintSummary \/ MainReturn

SpecMain == MainInit /\ [][MainNext]_vars

\* main returns when process_vault has, and the path validation is its first
\* statement: weak fairness of the two steps, which are plain sequential code
SpecMainLive == SpecMain /\ WF_vars(ValidateVaultPath) /\ WF_vars(MainReturn)

\* load_config_file and merge_config called again and again in one process, as
\* the tests call them: the class-level tables are those the call before left
MaxMerges == 2

ConfigArgs == {a \in MainArgs : ~a.dry_run}

ConfigInit ==
    /\ vault_kind = "dir"
    /\ args \in ConfigArgs
    /\ sidecar \in Sidecars
    /\ fs = OtherFiles
    /\ config = CliConfig(DefaultArgs)
    /\ DAILY_NOTE_PATTERNS = DefaultDailyNotePatterns
    /\ TEMPLATE_PATTERNS = DefaultTemplatePatterns
    /\ PRESERVE_TERMS = DefaultPreserveTerms
    /\ vault_name = s_vault
    /\ file_path = [dirs |-> <<>>, name |-> <<>>]
    /\ heading_value = <<>>
    /\ tc = [text |-> <<>>, result |-> <<>>]
    /\ content = <<>>
    /\ parsed = NoParse
    /\ new_content = <<>>
    /\ reparsed = NoParse
    /\ md_files = <<>>
    /\ outcome = <<>>
    /\ stats = ZeroStats
    /\ summary = NoSummary
    /\ run = 1
    /\ fs_before = fs
    /\ faults = 0
    /\ file_config = NoneCfg
    /\ exit_code = NotReturned
    /\ warnings = 0
    /\ merges = 0
    /\ pc = "load"

\* the next call, with another sidecar and another command line
NextCall ==
    /\ pc \in {"idle", "crashed"}
    /\ merges < MaxMerges
    /\ sidecar' \in Sidecars
    /\ args' \in ConfigArgs
    /\ pc' = "load"
    /\ UNCHANGED <<config, tables, vault_name, file_path, heading_value, tc, codecVars,
                   vaultVars, vault_kind, file_config, exit_code, warnings, merges>>

ConfigNext == LoadConfigFile \/ MergeConfig \/ NextCall

SpecConfig == ConfigInit /\ [][ConfigNext]_vars

----------------------------------------------------------------------------
(* The walker on its own: a tree of files and a list of exclusion strings   *)
(* are drawn, then the files are listed.                                    *)

MaxWalkFiles == 3

s_drafts == <<"d","r","a","f","t","s">>
s_my_drafts == <<"m","y","-","d","r","a","f","t","s">>
s_old == <<"o","l","d">>
s_plugins == <<"p","l","u","g","i","n","s">>
s_notes_dr == <<"n","o","t","e","s","/","d","r">>

\* the directories of the trees
WalkDirs == {<<>>, <<s_notes>>, <<s_drafts>>, <<s_notes, s_drafts>>,
             <<s_notes, s_drafts, s_old>>, <<s_my_drafts>>, <<s_obsidian>>,
             <<s_notes, s_obsidian, s_plugins>>}

WalkPaths == {[dirs |-> d, name |-> s_my_note \o s_md] : d \in WalkDirs}

\* the values of exclude_dirs
ExcludeLists == {<<>>, <<s_drafts>>, <<s_notes_dr>>, <<s_old, s_my_drafts>>,
                 <<s_dot>>, <<<<>>>>}

WalkVaults ==
    {[g \in paths |-> Readable(PlainText)] :
        paths \in {ps \in SUBSET WalkPaths : Cardinality(ps) <= MaxWalkFiles}}

WalkInit ==
    /\ config \in [dry_run : {FALSE}, backup : {FALSE}, skip_existing : {TRUE},
                   title_case : {FALSE}, preserve_case : {FALSE},
                   exclude_dirs : ExcludeLists, include_patterns : {<<>>}]
    /\ DAILY_NOTE_PATTERNS = DefaultDailyNotePatterns
    /\ TEMPLATE_PATTERNS = DefaultTemplatePatterns
    /\ PRESERVE_TERMS = DefaultPreserveTerms
    /\ vault_name = s_vault
    /\ file_path = [dirs |-> <<>>, name |-> <<>>]
    /\ heading_value = <<>>
    /\ tc = [text |-> <<>>, result |-> <<>>]
    /\ content = <<>>
    /\ parsed = NoParse
    /\ new_content = <<>>
    /\ reparsed = NoParse
    /\ fs \in WalkVaults
    /\ md_files = <<>>
    /\ outcome = <<>>
    /\ stats = ZeroStats
    /\ summary = NoSummary
    /\ run = 1
    /\ fs_before = fs
    /\ faults = 0
    /\ vault_kind = "dir"
    /\ args = DefaultArgs
    /\ sidecar = MissingSidecar
    /\ file_config = NoneCfg
    /\ exit_code = NotReturned
    /\ warnings = 0
    /\ merges = 0
    /\ pc = "idle"

SpecWalk == WalkInit /\ [][StartRun]_vars

----------------------------------------------------------------------------
(* The rule engine on its own: a configuration and a file path are drawn,  *)
(* then the heading is computed and names are title-cased.                 *)

Stems == {s_index_summary, s_index, s_Index, s_README, s_readme, s_my_note,
          s_my_project_summary, s_meeting_template, s_date, s_01_projects,
          s_api_documentation, s_ios_development, s_my_under_note,
          s_test_API_guide, s_summary_suffix}

DirPaths == {<<>>, <<s_notes>>, <<s_projects>>, <<s_01_projects>>,
             <<s_daily_notes>>, <<s_00_INBOX, s_daily_notes>>,
             <<s_99_ARCHIVE, s_2024, s_01_January>>, <<s_journal>>,
             <<s_my_journal>>, <<s_04_TEMPLATES>>, <<s_notes, s_templates>>,
             <<s_Journal>>, <<s_projects, s_notes>>}

IncludePatternLists ==
    {<<>>, <<g_dd_daily>>, <<g_notes_star>>, <<g_star_summary>>, <<g_dd_notes>>}

RuleConfigs ==
    [dry_run : {FALSE}, backup : {FALSE}, skip_existing : {TRUE},
     title_case : BOOLEAN, preserve_case : BOOLEAN,
     exclude_dirs : {<<>>}, include_patterns : IncludePatternLists]

RulesInit ==
    /\ config \in RuleConfigs
    /\ DAILY_NOTE_PATTERNS = DefaultDailyNotePatterns
    /\ TEMPLATE_PATTERNS = DefaultTemplatePatterns
    /\ PRESERVE_TERMS = DefaultPreserveTerms
    /\ vault_name = s_vault
    /\ file_path \in [dirs : DirPaths, name : {s \o s_md : s \in Stems}]
    /\ heading_value = <<>>
    /\ tc = [text |-> <<>>, result |-> <<>>]
    /\ content = <<>>
    /\ parsed = NoParse
    /\ new_content = <<>>
    /\ reparsed = NoParse
    /\ fs = <<>>
    /\ md_files = <<>>
    /\ outcome = <<>>
    /\ stats = ZeroStats
    /\ summary = NoSummary
    /\ run = 1
    /\ fs_before = <<>>
    /\ faults = 0
    /\ vault_kind = "dir"
    /\ args = DefaultArgs
    /\ sidecar = MissingSidecar
    /\ file_config = NoneCfg
    /\ exit_code = NotReturned
    /\ warnings = 0
    /\ merges = 0
    /\ pc = "start"

GenerateHeadingValue ==
    /\ pc = "start"
    /\ heading_value' = _generate_heading_value(file_path, vault_name, config,
                            DAILY_NOTE_PATTERNS, TEMPLATE_PATTERNS, PRESERVE_TERMS)
    /\ pc' = "generated"
    /\ UNCHANGED <<config, tables, vault_name, file_path, tc, codecVars, vaultVars, mainVars>>

ToTitleCase ==
    /\ pc = "start"
    /\ \E text \in {PathStem(file_path.name), ParentName(file_path, vault_name)} :
           tc' = [text |-> text, result |-> _to_title_case(text, PRESERVE_TERMS)]
    /\ pc' = "titled"
    /\ UNCHANGED <<config, tables, vault_name, file_path, heading_value, codecVars, vaultVars,
                   mainVars>>

RulesNext == GenerateHeadingValue \/ ToTitleCase

SpecRules == RulesInit /\ [][RulesNext]_vars

----------------------------------------------------------------------------
(* Properties of the codec.                                                *)

HeadingPair == Pair(s_heading, Val("str", <<heading_value>>))

\* C3: a text in which parse finds no metadata block becomes a block that
\* parses to exactly {heading: <computed value>}, followed by the whole
\* original text, unchanged.
C3_NoMetadataRoundTrip ==
    (pc = "reparsed" /\ parsed.fm = NoneDoc) =>
        /\ reparsed.fm = Doc("map", <<HeadingPair>>, <<>>)
        /\ reparsed.body = content
        /\ Len(new_content) >= Len(content) + 2
        /\ new_content[1] = DelimLine(LF)
        /\ StripsToDelim(new_content[Len(new_content) - Len(content)])
        /\ SubSeq(new_content, Len(new_content) - Len(content) + 1,
                  Len(new_content)) = content

\* C3 witness: a text that opens with --- but holds no valid block (so that it
\* has no metadata) was processed and parsed again
C3_Witness ==
    /\ pc = "reparsed"
    /\ parsed.fm = NoneDoc
    /\ StartsWithDelimiter(content)
    /\ \E i \in DOMAIN content : content[i].k = "bad"
    /\ reparsed.body = content
    /\ reparsed.fm.pairs = <<HeadingPair>>

\* C4: a text with a well-formed block of N keys, none of them heading, is
\* written as a text that holds the N keys in their order with their values,
\* then heading as the last key, and the same body.
C4_KeysPreserved ==
    (pc = "reparsed" /\ parsed.fm.t = "map" /\ ~HasKey(parsed.fm.pairs, s_heading)) =>
        /\ reparsed.fm = Doc("map", Append(parsed.fm.pairs, HeadingPair), <<>>)
        /\ reparsed.body = parsed.body

FirstClosing(c) ==
    LET closing == {i \in 2..Len(c) : StripsToDelim(c[i])}
    IN IF closing = {} THEN 0 ELSE CHOOSE j \in closing : \A j2 \in closing : j <= j2

\* C9: a text that opens with the delimiter and has no closing line, or whose
\* block is not valid YAML, parses to (no metadata, the whole text).
C9_MalformedKeepsWholeText ==
    (/\ pc = "parsed"
     /\ StartsWithDelimiter(content)
     /\ \/ FirstClosing(content) = 0
        \/ safe_load(SubSeq(content, 2, FirstClosing(content) - 1)).t = "error")
    => parsed = [fm |-> NoneDoc, body |-> content]

\* C9 witness: a block that is closed but is not valid YAML, followed by a body,
\* was parsed
C9_Witness ==
    /\ pc = "parsed"
    /\ StartsWithDelimiter(content)
    /\ FirstClosing(content) \in 3..(Len(content) - 1)
    /\ safe_load(SubSeq(content, 2, FirstClosing(content) - 1)).t = "error"
    /\ parsed.fm = NoneDoc
    /\ parsed.body = content

----------------------------------------------------------------------------
(* Properties of the rule engine and of the title-case transformer.        *)

\* the inputs of the generated heading
TheStem == PathStem(file_path.name)
TheRel == RelStr(file_path)
TheDaily == _is_daily_note(TheRel, config, DAILY_NOTE_PATTERNS)

\* the condition of rule r (1 daily, 2 summary, 3 template, 4 index, 5 readme, 6 default)
RuleCond(r) ==
    CASE r = 1 -> TheDaily
      [] r = 2 -> endswith(TheStem, s_summary_suffix)
      [] r = 3 -> _is_template_file(TheRel, TheStem, TEMPLATE_PATTERNS)
      [] r = 4 -> lower(TheStem) = s_index
      [] r = 5 -> upper(TheStem) = s_README
      [] r = 6 -> TRUE

\* what rule r returns
RuleResult(r) ==
    CASE r = 1 -> s_Daily_Note_ \o TheStem
      [] r = 2 -> SummaryHeading(TheStem, config, PRESERVE_TERMS)
      [] r = 3 -> s_Template_ \o TheStem
      [] r = 4 -> ParentHeading(file_path, vault_name, config, PRESERVE_TERMS, s_dash_Index)
      [] r = 5 -> ParentHeading(file_path, vault_name, config, PRESERVE_TERMS, s_dash_README)
      [] r = 6 -> DefaultHeading(TheStem, config, PRESERVE_TERMS)

FirstRule == CHOOSE r \in 1..6 : RuleCond(r) /\ \A q \in 1..(r - 1) : ~RuleCond(q)

\* C1: the heading returned is the result of the first rule, in the order daily
\* note, project summary, template, index, readme, default, whose condition
\* holds; a later rule's result is never returned in its place.
C1_FirstMatchWins ==
    pc = "generated" =>
        /\ heading_value = RuleResult(FirstRule)
        /\ \A r \in 1..6 :
               (RuleCond(r) /\ heading_value # RuleResult(r))
                   => \E q \in 1..(r - 1) : RuleCond(q)

\* C1 witness: a heading was generated for a file that satisfies the conditions of
\* two rules (summary and template), and the earlier rule gave the result
C1_Witness ==
    /\ pc = "generated"
    /\ ~RuleCond(1) /\ RuleCond(2) /\ RuleCond(3)
    /\ heading_value = RuleResult(2)
    /\ heading_value # RuleResult(3)

s_index_Summary == s_index \o s_dash_Summary
s_Index_Summary == s_Index \o s_dash_Summary

\* C2 as stated: index-summary.md gets "index - Summary" in any directory and
\* under any configuration.
C2_Original ==
    (pc = "generated" /\ file_path.name = s_index_summary \o s_md)
        => heading_value = s_index_Summary

\* C2 amended: index-summary.md outside the daily-note locations gets
\* "index - Summary" (title_case off) or "Index - Summary" (title_case on), in
\* a daily-note location it gets "Daily Note index-summary", and it never gets
\* an index-style heading.
C2_SummaryBeforeIndex ==
    (pc = "generated" /\ file_path.name = s_index_summary \o s_md) =>
        /\ ~TheDaily /\ ~config.title_case => heading_value = s_index_Summary
        /\ ~TheDaily /\ config.title_case => heading_value = s_Index_Summary
        /\ TheDaily => heading_value = s_Daily_Note_ \o s_index_summary
        /\ ~endswith(heading_value, s_dash_Index)

\* C2 witness: index-summary.md outside the daily-note locations got its heading
C2_Witness ==
    /\ pc = "generated"
    /\ file_path.name = s_index_summary \o s_md
    /\ ~TheDaily
    /\ heading_value = s_index_Summary

HasOrgPrefix(text) ==
    Len(text) >= 3 /\ text[1] \in Digits /\ text[2] \in Digits /\ text[3] = "-"

s_Projects_README == capitalize(s_projects) \o s_dash_README

\* C10: title_case removes a leading two-digit-and-hyphen prefix, so the result
\* does not begin with the prefix's digits, and README.md in 01-projects with
\* title-case enabled gets "Projects - README".
C10_PrefixStripped ==
    /\ (pc = "titled" /\ HasOrgPrefix(tc.text))
           => ~startswith(tc.result, SubSeq(tc.text, 1, 2))
    /\ (pc = "generated" /\ config.title_case /\ ~TheDaily
            /\ file_path = [dirs |-> <<s_01_projects>>, name |-> s_README \o s_md])
           => heading_value = s_Projects_README

\* the words _to_title_case sees in a text, and the words of its result
InputWords(text) == split(replace(replace(text, "-", " "), "_", " "))

\* C11: every word of the input that is a casing variant of a preserved term
\* comes out as the term in its stored form (API for api, Api and API; iOS
\* for ios).
C11_CasingVariantsNormalized ==
    pc = "titled" =>
        /\ Len(split(tc.result)) = Len(InputWords(tc.text))
        /\ \A i \in DOMAIN InputWords(tc.text) :
              \A term \in PRESERVE_TERMS :
                  lower(term) = lower(InputWords(tc.text)[i])
                      => split(tc.result)[i] = term


\* the path lies in one of the built-in daily-note locations
InDailyLocation ==
    \E i \in DOMAIN DefaultDailyNotePatterns : re_search(DefaultDailyNotePatterns[i], TheRel)

\* C12: a file in a built-in daily-note location, matched without regard to
\* letter case, gets "Daily Note " followed by its stem as it is, whatever
\* title_case and preserve_case are and whatever the stem is.
C12_DailyNoteVerbatim ==
    (pc = "generated" /\ InDailyLocation) => heading_value = s_Daily_Note_ \o TheStem

\* meeting-template.md in Journal/ got its heading with title_case on
C12_Witness ==
    /\ pc = "generated"
    /\ config.title_case /\ ~config.preserve_case
    /\ file_path = [dirs |-> <<s_Journal>>, name |-> s_meeting_template \o s_md]
    /\ heading_value = s_Daily_Note_ \o s_meeting_template

\* C13: with preserve_case on, the heading of every file is the heading it
\* gets with title_case off, in the summary, index, readme and default rules
\* alike.
C13_PreserveCaseSuppressesTitleCase ==
    (pc = "generated" /\ config.preserve_case) =>
        heading_value = _generate_heading_value(file_path, vault_name,
                            [config EXCEPT !.title_case = FALSE],
                            DAILY_NOTE_PATTERNS, TEMPLATE_PATTERNS, PRESERVE_TERMS)

----------------------------------------------------------------------------
(* Properties of process_vault                                             *)

CountOutcome(o) == Cardinality({i \in DOMAIN outcome : outcome[i] = o})

\* the file the next turn of the loop visits
NextFile == md_files[Len(outcome) + 1]

\* no file of the run failed to be read or to take a heading, and nothing was
\* written that failed
RunWithoutFailure ==
    /\ faults = 0
    /\ \A i \in DOMAIN md_files :
          /\ fs_before[md_files[i]].readable
          /\ CanSetHeading(ParsedFile(fs_before[md_files[i]]).fm)

\* C5: with skip_existing on and dry_run off, when a second run over the vault
\* has completed, and no file failed and no write failed, the second run has
\* changed no file and every file it visited ended as skipped_existing.
C5_SecondRunSkipsAll ==
    (run = 2 /\ pc = "done" /\ config.skip_existing /\ ~config.dry_run
        /\ RunWithoutFailure) =>
        /\ fs = fs_before
        /\ \A i \in DOMAIN outcome : outcome[i] = "skipped_existing"

\* C6: with dry_run on, the files are at every moment what they were when the
\* run started (so no backup file exists either), and when the run has completed
\* each file has the outcome a run with dry_run off and no failed write gives it,
\* and the statistics and the summary count these outcomes.
C6_DryRunWritesNothing ==
    config.dry_run =>
        /\ fs = fs_before
        /\ \A f \in DOMAIN fs : ~endswith(f.name, s_bak)
        /\ pc = "done" =>
              /\ Len(outcome) = Len(md_files)
              /\ \A i \in DOMAIN md_files :
                    outcome[i] = _process_file(md_files[i], fs_before,
                                     [config EXCEPT !.dry_run = FALSE], vault_name,
                                     DAILY_NOTE_PATTERNS, TEMPLATE_PATTERNS,
                                     PRESERVE_TERMS, "none").outcome
              /\ stats.processed = CountOutcome("processed")
              /\ stats.skipped_existing = CountOutcome("skipped_existing")
              /\ stats.errors = CountOutcome("errors")
              /\ summary.processed = stats.processed

\* a dry run with backup on has completed on two files, both processed
C6_Witness ==
    /\ config.dry_run /\ config.backup /\ pc = "done"
    /\ Len(md_files) = 2 /\ stats.processed = 2

\* C7: a turn of the loop on a file whose metadata is a mapping with a heading
\* key, with skip_existing on, ends as skipped_existing, leaves every file as it
\* was (no write, no backup) and does not count the file as processed.
C7_Step ==
    (pc = "loop" /\ fs[NextFile].readable /\ config.skip_existing
        /\ ParsedFile(fs[NextFile]).fm.t = "map"
        /\ HasKey(ParsedFile(fs[NextFile]).fm.pairs, s_heading)) =>
        /\ outcome' = Append(outcome, "skipped_existing")
        /\ fs' = fs
        /\ stats' = [stats EXCEPT !.skipped_existing = @ + 1]

C7_ExistingHeadingSkipped == [][C7_Step]_vars

\* the file with heading: Old has been visited with skip_existing and backup on
\* and dry_run off
C7_Witness ==
    /\ config.skip_existing /\ config.backup /\ ~config.dry_run
    /\ run = 1 /\ outcome # <<>>
    /\ fs_before[md_files[Len(outcome)]] = Readable(HeadedText)
    /\ outcome[Len(outcome)] = "skipped_existing"

\* the turn of the loop on the next file fails: the file cannot be read, its
\* frontmatter cannot take a key, or the backup or the write fails
FailsNow ==
    \/ ~fs[NextFile].readable
    \/ /\ ~SkipsExisting(ParsedFile(fs[NextFile]).fm, config)
       /\ ~CanSetHeading(ParsedFile(fs[NextFile]).fm)
    \/ faults' # faults

C8_Step ==
    (pc = "loop" /\ FailsNow) =>
        /\ outcome' = Append(outcome, "errors")
        /\ stats' = [stats EXCEPT !.errors = @ + 1]
        /\ pc' \in {"loop", "summary"}

C8_State ==
    /\ pc # "aborted"
    /\ stats.errors = CountOutcome("errors")
    /\ pc = "loop" => Len(outcome) < Len(md_files)
    /\ pc \in {"summary", "done"} => Len(outcome) = Len(md_files)
    /\ pc = "done" => summary.printed /\ summary.errors = stats.errors

\* C8: a failure on a file adds one to errors and the loop goes on; the run is
\* never aborted, every file of the list gets an outcome, and a run that has
\* entered the loop reaches the summary and completes.
C8_ErrorIsolation ==
    /\ []C8_State
    /\ [][C8_Step]_vars
    /\ (pc = "loop") ~> (pc = "done")

\* a run has completed in which a file failed and the file after it was processed
C8_Witness ==
    /\ pc = "done"
    /\ \E i \in DOMAIN outcome :
          /\ i < Len(outcome)
          /\ outcome[i] = "errors"
          /\ outcome[i + 1] = "processed"

\* the sibling <name>.bak of a file
BakOf(fp) == [dirs |-> fp.dirs, name |-> fp.name \o s_bak]

C14_Step ==
    (pc = "loop" /\ config.backup /\ ~config.dry_run) =>
        (fs'[NextFile] # fs[NextFile] =>
            /\ BakOf(NextFile) \in DOMAIN fs'
            /\ fs'[BakOf(NextFile)] = fs[NextFile])

\* C14: with backup on and dry_run off, a turn of the loop that changes a file
\* leaves in <name>.bak the file as it was before the turn, byte for byte; so a
\* turn whose copy did not produce that backup leaves the file as it was.
C14_BackupBeforeOverwrite == [][C14_Step]_vars

\* the file written on Windows has been processed with backup on: it has changed
\* and its backup is the file as it was
C14_Witness ==
    /\ config.backup /\ ~config.dry_run /\ run = 1
    /\ outcome # <<>>
    /\ outcome[Len(outcome)] = "processed"
    /\ fs_before[md_files[Len(outcome)]] = Readable(TitledText)
    /\ fs[md_files[Len(outcome)]] # fs_before[md_files[Len(outcome)]]
    /\ fs[BakOf(md_files[Len(outcome)])] = fs_before[md_files[Len(outcome)]]

\* the root-relative path of a directory, as str(rel_path) gives it
DirRel(dirs) == IF dirs = <<>> THEN s_dot ELSE join(<<"/">>, dirs)

\* the directory is named .obsidian or lies beneath such a directory, or its
\* path or the path of a directory above it contains an exclusion string
InPrunedDirectory(dirs) ==
    \E k \in 0..Len(dirs) :
        \/ k > 0 /\ dirs[k] = s_obsidian
        \/ \E i \in DOMAIN config.exclude_dirs :
               contains(DirRel(SubSeq(dirs, 1, k)), config.exclude_dirs[i])

Walking == pc \in {"loop", "summary", "done", "returned"}
Listed(f) == \E i \in DOMAIN md_files : md_files[i] = f
ExcalidrawFiles ==
    {f \in DOMAIN fs_before :
        endswith(f.name, s_excalidraw_md) /\ ~InPrunedDirectory(f.dirs)}

\* C15: once the files have been listed, a file of a walked directory whose name
\* ends in .excalidraw.md is not in the list, has added one to skipped_special,
\* and stays what it was, without backup; every other file of a walked
\* directory whose name ends in .md in any letter case is in the list.
C15_ExcalidrawSkipped ==
    Walking =>
        /\ \A f \in ExcalidrawFiles :
              /\ ~Listed(f)
              /\ file_path # f
              /\ fs[f] = fs_before[f]
              /\ BakOf(f) \notin DOMAIN fs
        /\ stats.skipped_special = Cardinality(ExcalidrawFiles)
        /\ \A f \in DOMAIN fs_before :
              (/\ endswith(lower(f.name), s_md)
               /\ ~endswith(f.name, s_excalidraw_md)
               /\ ~InPrunedDirectory(f.dirs)) => Listed(f)

\* a run has completed on a vault with my-note.MD and a drawing in notes/: the
\* note was listed and processed, the drawing counted as special
C15_Witness ==
    /\ pc = "done" /\ run = 1 /\ ~config.dry_run
    /\ ExcalidrawFiles = {[dirs |-> <<s_notes>>, name |-> s_drawing \o s_excalidraw_md]}
    /\ stats.skipped_special = 1
    /\ md_files = <<[dirs |-> <<s_notes>>, name |-> s_my_note \o s_MD]>>
    /\ outcome = <<"processed">>

\* C16: no file of the list lies in or beneath a directory named .obsidian or
\* a directory whose root-relative path contains an exclusion string.
C16_PrunedDirectoriesNotListed ==
    Walking => \A i \in DOMAIN md_files : ~InPrunedDirectory(md_files[i].dirs)

\* with the exclusion string drafts, a tree with files in notes, my-drafts and
\* notes/drafts/old was listed: the file in notes alone is in the list
C16_Witness ==
    /\ Walking
    /\ config.exclude_dirs = <<s_drafts>>
    /\ {f.dirs : f \in DOMAIN fs} = {<<s_notes>>, <<s_my_drafts>>, <<s_notes, s_drafts, s_old>>}
    /\ md_files = <<[dirs |-> <<s_notes>>, name |-> s_my_note \o s_md]>>

----------------------------------------------------------------------------
(* Properties of main and ConfigFileLoader                                  *)

C17_State ==
    /\ exit_code \in {NotReturned, 0, 1}
    /\ exit_code = 1 <=> (pc = "exited" /\ vault_kind # "dir")
    /\ exit_code = 1 =>
          /\ fs = fs_before /\ md_files = <<>> /\ outcome = <<>> /\ stats = ZeroStats
          /\ merges = 0 /\ warnings = 0 /\ file_config = NoneCfg
    /\ (pc = "exited" /\ vault_kind = "dir") => exit_code = 0

C17_Step ==
    /\ (pc = "main" /\ vault_kind # "dir") => (exit_code' = 1 /\ vaultVars' = vaultVars)
    /\ pc \in {"done", "returned"} => (exit_code' = 0 /\ vaultVars' = vaultVars)

\* C17: main returns 1 exactly when the vault path is missing or is not a
\* directory, and then as its first step, with no file listed, read or changed
\* and no configuration loaded; when process_vault has returned, with no file
\* matched or with files that ended in errors, main returns 0.
C17_ExitCodes ==
    /\ []C17_State
    /\ [][C17_Step]_vars
    /\ (pc = "main" /\ vault_kind # "dir") ~> (exit_code = 1)
    /\ (pc \in {"done", "returned"}) ~> (exit_code = 0)

\* main has returned 0 after a run in which a file ended in errors
C17_Witness ==
    /\ pc = "exited" /\ exit_code = 0
    /\ stats.errors > 0 /\ stats.processed > 0

TablesAreDefault ==
    /\ DAILY_NOTE_PATTERNS = DefaultDailyNotePatterns
    /\ TEMPLATE_PATTERNS = DefaultTemplatePatterns
    /\ PRESERVE_TERMS = DefaultPreserveTerms

\* a missing sidecar and one that cannot be loaded leave the tables and the
\* configuration of the command line, the second after one warning
C18_AbsentOrMalformed ==
    /\ (sidecar.k # "yaml" /\ merges > 0) =>
          /\ pc # "crashed"
          /\ TablesAreDefault
          /\ config = CliConfig(args)
    /\ warnings = (IF sidecar.k \in {"invalid", "unreadable"} /\ pc \notin {"main", "load"}
                   THEN 1 ELSE 0)

\* C18: a missing sidecar has no effect, one that cannot be loaded is treated
\* as absent after a warning, and no content of the sidecar aborts the run.
C18_SidecarNeverAborts ==
    /\ C18_AbsentOrMalformed
    /\ pc # "crashed"

\* s is the beginning of t
IsPrefix(s, t) == Len(s) <= Len(t) /\ SubSeq(t, 1, Len(s)) = s

\* the entries a key of the sidecar holds
Added(v) == IF v.t = "list" THEN v.items ELSE <<>>

C19_State ==
    /\ IsPrefix(DefaultDailyNotePatterns, DAILY_NOTE_PATTERNS)
    /\ IsPrefix(DefaultTemplatePatterns, TEMPLATE_PATTERNS)
    /\ DefaultPreserveTerms \subseteq PRESERVE_TERMS

C19_Step ==
    pc = "merge" =>
        /\ IsPrefix(DAILY_NOTE_PATTERNS, DAILY_NOTE_PATTERNS')
        /\ IsPrefix(TEMPLATE_PATTERNS, TEMPLATE_PATTERNS')
        /\ PRESERVE_TERMS \subseteq PRESERVE_TERMS'
        /\ pc' = "idle" =>
              LET daily == Added(file_config.daily_note_patterns)
                  templ == Added(file_config.template_directories)
                  terms == Added(file_config.title_case.preserve_terms)
              IN /\ DAILY_NOTE_PATTERNS' =
                        DAILY_NOTE_PATTERNS \o [i \in DOMAIN daily |-> Pattern(daily[i])]
                 /\ TEMPLATE_PATTERNS' =
                        TEMPLATE_PATTERNS \o [i \in DOMAIN templ |-> Pattern(templ[i])]
                 /\ PRESERVE_TERMS' = PRESERVE_TERMS \cup {terms[i] : i \in DOMAIN terms}
                 /\ config'.exclude_dirs =
                        CommaList(args.exclude_dirs) \o Added(file_config.exclude_patterns)

\* C19: in every state reached by calls of merge_config the built-in daily-note
\* patterns and template patterns begin the tables and the built-in preserve
\* terms are in theirs; a call never removes an entry, and a call that returns
\* has appended the sidecar's patterns, added its terms, and returned the
\* exclusions of the command line followed by the sidecar's exclude_patterns.
C19_TablesOnlyExtended == []C19_State /\ [][C19_Step]_vars

\* two calls with the full sidecar have returned: its pattern is in the table
\* twice after the built-in ones, and the exclusions of the command line come
\* before the sidecar's
C19_Witness ==
    /\ merges = 2 /\ pc = "idle"
    /\ DAILY_NOTE_PATTERNS = DefaultDailyNotePatterns \o <<Pattern(s_diary), Pattern(s_diary)>>
    /\ s_Docker \in PRESERVE_TERMS
    /\ config.exclude_dirs = <<s_drafts, s_old, s_trash>>

----------------------------------------------------------------------------
(* The codec as a pair of functions                                         *)

\* the mapping that was serialized: the parsed one with heading set, or the
\* mapping with heading alone when the text had none
SerializedMapping ==
    IF parsed.fm.t = "map" THEN SetHeading(parsed.fm, heading_value)
    ELSE Doc("map", <<HeadingPair>>, <<>>)

C20_Layout ==
    pc = "reparsed" =>
        LET n == Len(parsed.body) IN
        /\ Len(new_content) >= n + 2
        /\ new_content[1] = DelimLine(LF)
        /\ StripsToDelim(new_content[Len(new_content) - n])
        /\ SubSeq(new_content, Len(new_content) - n + 1, Len(new_content)) = parsed.body

\* C20: the text written for a mapping and a body parses to the same mapping,
\* keys in the same order, and to the same body; it begins with the delimiter
\* line, and the lines after its closing delimiter line are the body.
C20_RoundTrip ==
    /\ C20_Layout
    /\ pc = "reparsed" =>
          /\ reparsed.fm = SerializedMapping
          /\ reparsed.body = parsed.body

\* the round trip of the mappings none of whose values has a line of dashes
C20_WithoutDashLines ==
    (pc = "reparsed" /\ \A i \in DOMAIN new_content :
                           StripsToDelim(new_content[i]) => new_content[i] = DelimLine(LF)
                                                            \/ i > Len(new_content) - Len(parsed.body))
        => (reparsed.fm = SerializedMapping /\ reparsed.body = parsed.body)

----------------------------------------------------------------------------
(* Properties of a run as a sequence of visits                              *)

\* the list is in the order of Path: the parts of the paths compared one after
\* the other as strings, so without a repeated file
InPathOrder(files) ==
    \A i, j \in DOMAIN files : i < j => PartsLess(Parts(files[i]), Parts(files[j]))

C21_State ==
    /\ InPathOrder(md_files)
    /\ pc = "loop" =>
          \A i \in DOMAIN md_files :
             i > Len(outcome) => fs[md_files[i]] = fs_before[md_files[i]]

C21_Step ==
    pc = "loop" =>
        /\ Len(outcome') = Len(outcome) + 1
        /\ \A f \in DOMAIN fs :
              f \notin {NextFile, BakOf(NextFile)} => (f \in DOMAIN fs' /\ fs'[f] = fs[f])
        /\ \A f \in DOMAIN fs' : f \notin DOMAIN fs => f = BakOf(NextFile)
        /\ \A i \in DOMAIN md_files : BakOf(NextFile) # md_files[i]

\* C21: the list a run visits is in the order of the paths; a turn of the loop
\* gives an outcome to the next file of the list and changes no other file of
\* the vault but that file's backup, which is no file of the list; so at every
\* point of a run, which is every point at which it can be terminated, the
\* files after the one being visited are what they were when the run started
\* and the files written before stay as written.
C21_OneFileAtATime == []C21_State /\ [][C21_Step]_vars

\* the run is between its first and its second file: the first was written,
\* the second is as before
C21_Witness ==
    /\ pc = "loop" /\ Len(md_files) = 2 /\ Len(outcome) = 1
    /\ outcome[1] = "processed"
    /\ fs[md_files[1]] # fs_before[md_files[1]]
    /\ fs[md_files[2]] = fs_before[md_files[2]]

\* the files the walker excludes as special: files of a walked directory with
\* the markdown extension whose name ends in .canvas or .excalidraw.md
SpecialFiles ==
    {f \in DOMAIN fs_before :
        /\ endswith(lower(f.name), s_md)
        /\ endswith(f.name, s_canvas) \/ endswith(f.name, s_excalidraw_md)
        /\ ~InPrunedDirectory(f.dirs)}

Outcomes == {"processed", "skipped_existing", "errors"}

C22_Step ==
    pc = "loop" =>
        \E o \in Outcomes :
           /\ outcome' = Append(outcome, o)
           /\ stats' = [stats EXCEPT ![o] = @ + 1]

C22_State ==
    /\ \A o \in Outcomes : stats[o] = CountOutcome(o)
    /\ Walking => stats.skipped_special = Cardinality(SpecialFiles)
    /\ pc \in {"summary", "done", "returned"} =>
          stats.processed + stats.skipped_existing + stats.errors = Len(md_files)
    /\ pc = "done" =>
          /\ summary.printed
          /\ summary.processed = stats.processed
          /\ summary.skipped_existing = stats.skipped_existing
          /\ summary.skipped_special = stats.skipped_special
          /\ summary.errors = stats.errors
          /\ summary.total = stats.processed + stats.skipped_existing
                             + stats.skipped_special + stats.errors
          /\ summary.total = Len(md_files) + Cardinality(SpecialFiles)

\* C22: a turn of the loop gives the file one of the outcomes processed,
\* skipped_existing and errors and adds one to that counter alone; when
\* process_vault has returned the three counters add up to the length of the
\* walker's list, skipped_special is the number of special files of the walked
\* directories, and the total of the summary is the sum of the four counters.
C22_OneOutcomePerFile == []C22_State /\ [][C22_Step]_vars

\* a run has completed with a file processed, a file in errors and a special
\* file, and its total is three
C22_Witness ==
    /\ pc = "done" /\ run = 1
    /\ stats.processed = 1 /\ stats.errors = 1 /\ stats.skipped_special = 1
    /\ summary.total = 3

\* process_vault has returned
RunCompleted == pc \in {"done", "returned"}

\* C23: when process_vault has returned, the summary has been produced, with
\* the four counters and their total, whatever the length of the walker's list.
C23_SummaryAlwaysProduced ==
    RunCompleted =>
        /\ summary.printed
        /\ summary.total = stats.processed + stats.skipped_existing
                           + stats.skipped_special + stats.errors

\* the same for the runs in which the walker found a file
C23_SummaryWhenFilesFound ==
    (RunCompleted /\ md_files # <<>>) =>
        /\ summary.printed
        /\ summary.total = stats.processed + stats.skipped_existing
                           + stats.skipped_special + stats.errors

----------------------------------------------------------------------------
(* Properties of the include patterns                                       *)

NoIncludeMatches ==
    \A i \in DOMAIN config.include_patterns :
        ~_match_glob_pattern(TheRel, config.include_patterns[i])

WithoutIncludes(cfg) == [cfg EXCEPT !.include_patterns = <<>>]

\* the vault that holds the file alone
OneFileVault == [g \in {file_path} |-> Readable(PlainText)]

\* C24: the heading of a file whose path matches no include pattern is the
\* heading it gets with no include pattern; and for every file and every list
\* of exclusions, the walker's list and the pruning of the file's directory are
\* what they are with no include pattern.
C24_IncludesOnlyInDailyRule ==
    pc = "generated" =>
        /\ NoIncludeMatches =>
              heading_value = _generate_heading_value(file_path, vault_name,
                                  WithoutIncludes(config), DAILY_NOTE_PATTERNS,
                                  TEMPLATE_PATTERNS, PRESERVE_TERMS)
        /\ \A ex \in ExcludeLists :
              LET cfg == [config EXCEPT !.exclude_dirs = ex] IN
              /\ _should_exclude_directory(file_path.dirs, cfg)
                    = _should_exclude_directory(file_path.dirs, WithoutIncludes(cfg))
              /\ _find_markdown_files(OneFileVault, cfg)
                    = _find_markdown_files(OneFileVault, WithoutIncludes(cfg))

\* a file in 04-TEMPLATES/ got its template heading with an include pattern
\* configured that does not match it
C24_Witness ==
    /\ pc = "generated"
    /\ config.include_patterns = <<g_dd_daily>>
    /\ file_path = [dirs |-> <<s_04_TEMPLATES>>, name |-> s_my_note \o s_md]
    /\ heading_value = s_Template_ \o s_my_note

\* parts of glob patterns
g_dd_slash == <<"*", "*", "/">>
g_slash_star_md == <<"/", "*", ".", "m", "d">>
g_slash_dd_star_md == <<"/", "*", "*", "/", "*", ".", "m", "d">>

\* the patterns **/D/*.md and D/**/*.md for a directory name D
AnyDepthIn(D) == g_dd_slash \o D \o g_slash_star_md
Beneath(D) == D \o g_slash_dd_star_md

\* a file in a subdirectory of its top-level directory D matches D/**/*.md
C25_Subdirectories ==
    (pc = "generated" /\ Len(file_path.dirs) >= 2) =>
        _match_glob_pattern(TheRel, Beneath(file_path.dirs[1]))

\* a pattern that names a directory that is not in the path does not match
C25_OtherDirectory ==
    pc = "generated" =>
        /\ ~_match_glob_pattern(TheRel, AnyDepthIn(s_trash))
        /\ ~_match_glob_pattern(TheRel, Beneath(s_trash))

\* a file directly inside a top-level directory D matches **/D/*.md, and with
\* that pattern as include pattern it is a daily note
C25_ZeroLevels ==
    (pc = "generated" /\ Len(file_path.dirs) = 1) =>
        /\ _match_glob_pattern(TheRel, AnyDepthIn(file_path.dirs[1]))
        /\ config.include_patterns = <<AnyDepthIn(file_path.dirs[1])>> =>
              heading_value = s_Daily_Note_ \o TheStem

\* C25: a file directly inside a top-level directory D matches **/D/*.md (the
\* leading **/ standing for no directory at all), a file in a subdirectory of D
\* matches D/**/*.md, and a pattern that names another directory does not match.
C25_GlobMatchesZeroLevels ==
    /\ C25_ZeroLevels
    /\ C25_Subdirectories
    /\ C25_OtherDirectory

----------------------------------------------------------------------------
(* Properties of the index and readme rules                                 *)

\* the name of the directory the file is in; the vault's for a file in the root
ImmediateParent ==
    IF file_path.dirs = <<>> THEN vault_name ELSE file_path.dirs[Len(file_path.dirs)]

\* that name as the heading shows it
Subject ==
    IF config.title_case THEN _to_title_case(ImmediateParent, PRESERVE_TERMS)
    ELSE ImmediateParent

NoEarlierRule == ~RuleCond(1) /\ ~RuleCond(2) /\ ~RuleCond(3)

C26_RootWitness ==
    /\ pc = "generated" /\ ~config.title_case
    /\ file_path = [dirs |-> <<>>, name |-> s_README \o s_md]
    /\ heading_value = s_vault \o s_dash_README

----------------------------------------------------------------------------
(* Properties of the parsed metadata                                        *)

\* C27: the metadata parse returns is absent or a mapping, possibly empty, for
\* every text, the texts whose block is a scalar or a sequence included.
C27_MetadataIsMapping ==
    pc \in {"parsed", "skipped", "written", "error", "reparsed"} =>
        parsed.fm.t \in {"none", "map"}

\* the same for the texts whose block is a mapping, is empty or is not YAML
C27_MappingBlocks ==
    (/\ pc \in {"parsed", "skipped", "written", "error", "reparsed"}
     /\ StartsWithDelimiter(content)
     /\ FirstClosing(content) > 0
     /\ safe_load(SubSeq(content, 2, FirstClosing(content) - 1)).t
           \in {"map", "none", "error"})
    => parsed.fm.t \in {"none", "map"}

----------------------------------------------------------------------------
(* Properties of a file that ends in errors                                 *)

EndsInErrors == pc = "loop" /\ outcome' = Append(outcome, "errors")

C28_Step == EndsInErrors => fs'[NextFile] = fs[NextFile]

\* C28: a turn of the loop that ends in errors leaves the file with the
\* content it had before the turn, at whichever step the failure was.
C28_ErrorsLeaveFileUnchanged == [][C28_Step]_vars

C28_BeforeWriteStep == (EndsInErrors /\ faults' = faults) => fs'[NextFile] = fs[NextFile]

\* the same for the failures of the read, the parse and the heading assignment
C28_FailuresBeforeTheWrite == [][C28_BeforeWriteStep]_vars

----------------------------------------------------------------------------
(* Properties of the tables across calls of merge_config                    *)

\* the tables a call of merge_config with the loaded sidecar gives when it
\* starts from the built-in ones
OwnDaily ==
    LET v == Added(file_config.daily_note_patterns)
    IN DefaultDailyNotePatterns \o [i \in DOMAIN v |-> Pattern(v[i])]
OwnTemplates ==
    LET v == Added(file_config.template_directories)
    IN DefaultTemplatePatterns \o [i \in DOMAIN v |-> Pattern(v[i])]
OwnTerms ==
    LET v == Added(file_config.title_case.preserve_terms)
    IN DefaultPreserveTerms \cup {v[i] : i \in DOMAIN v}

TablesAreOwn ==
    /\ DAILY_NOTE_PATTERNS = OwnDaily
    /\ TEMPLATE_PATTERNS = OwnTemplates
    /\ PRESERVE_TERMS = OwnTerms

\* C29: when a call of merge_config has returned, the tables are the built-in
\* ones extended by the sidecar of that call, whatever calls were made before
\* it in the process; so a sidecar merged twice leaves what one merge leaves.
C29_TablesOfOwnRunOnly == pc = "idle" => TablesAreOwn

\* the same for the first call of a process
C29_FirstCall == (pc = "idle" /\ merges = 1) => TablesAreOwn

----------------------------------------------------------------------------
(* Properties of skip_existing on the command line                          *)

\* the file had, when the run started, metadata with a heading key
HadHeading(f) ==
    /\ fs_before[f].readable
    /\ ParsedFile(fs_before[f]).fm.t = "map"
    /\ HasKey(ParsedFile(fs_before[f]).fm.pairs, s_heading)

\* C30: the arguments parsed from a command line and the Config merged from
\* them have skip_existing true, with or without --skip-existing; and in a run
\* of main a file in whose metadata parse finds a heading key stays what it
\* was.
C30_CommandLineSkipsExisting ==
    /\ args.skip_existing
    /\ config.skip_existing
    /\ \A f \in DOMAIN fs_before : HadHeading(f) => fs[f] = fs_before[f]

\* main has returned after a run without --dry-run in which the file with a
\* heading was skipped
C30_Witness ==
    /\ pc = "exited" /\ exit_code = 0 /\ ~config.dry_run
    /\ stats.skipped_existing = 1
    /\ \E f \in DOMAIN fs_before : HadHeading(f) /\ ~IsSpecial(f.name) /\ Listed(f)

====
